---------------------------- MODULE Spec2Model ----------------------------
(***************************************************************************)
(* A model of the dense matrix library matOps (src/src/matOps.hpp).        *)
(*                                                                         *)
(* The library stores 64-bit IEEE-754 floating point numbers.  Part 1      *)
(* models that arithmetic bit for bit (round to nearest, ties to even) on  *)
(* top of natural numbers of arbitrary size, because the library's         *)
(* tolerance tests (EPS) and its elimination routines are decided by the   *)
(* rounding.  Part 2 models the Matrix class, one operator per member      *)
(* function.  Part 3 declares the state, Part 4 follows the threads of the *)
(* parallel loops, Part 5 a program calling the public interface, Part 6   *)
(* a program inverting a matrix and multiplying back, Part 7 a program     *)
(* taking determinants; Part 8 states further properties of the program of *)
(* Part 5 and Part 9 follows a program shuffling two copies of a matrix.   *)
(* Part 10 states the properties of the program of Part 5 about shuffling, *)
(* construction, the scalar operations and the reductions.  Part 11        *)
(* follows a program comparing two matrices, Part 12 one that copies a     *)
(* matrix and writes through operator(), with storage followed by address, *)
(* Part 13 one that adds a matrix and subtracts it again.  Part 14 models  *)
(* the earlier implementation (src/src/linAlg.cpp) and Part 15 follows a   *)
(* program asking both determinant and inverse of a matrix.                *)
(***************************************************************************)
EXTENDS Integers, Sequences, FiniteSets, TLC

(***************************************************************************)
(* PART 1a.  Natural numbers of arbitrary size.                            *)
(* A number is the sequence of its digits in base LimbBase, least          *)
(* significant first, without leading zero digits; <<>> is zero.  The      *)
(* digit size is a choice of representation only: it keeps every           *)
(* intermediate product below 2^31.                                        *)
(***************************************************************************)
LimbBits == 2 * 7

LimbBase == 2 ^ LimbBits

\* v, with u computed first.  A loop that hands a running value to its next
\* round computes it before the round begins, as the machine does, instead of
\* leaving a growing chain of pending computations.  For the same reason a
\* value that is used more than once is handed on as the argument of a local
\* operator: it is then written, and computed, once.
After(u, v) == IF u = u THEN v ELSE v

\* The sequence f with its elements computed
Vec(f) == f \o <<>>

Min(a, b) == IF a < b THEN a ELSE b

Max(a, b) == IF a > b THEN a ELSE b

\* digit i of a, zero beyond its length
Digit(a, i) == IF 1 <= i /\ i <= Len(a) THEN a[i] ELSE 0

\* a without its leading zero digits
BTrim(a) ==
  IF \A i \in 1..Len(a) : a[i] = 0 THEN <<>>
  ELSE SubSeq(a, 1, CHOOSE i \in 1..Len(a) :
                      a[i] # 0 /\ \A j \in (i + 1)..Len(a) : a[j] = 0)

\* the number n, for 0 <= n < 2^31
BNat(n) == BTrim(<<n % LimbBase, (n \div LimbBase) % LimbBase, n \div (LimbBase * LimbBase)>>)

\* the value of a, for a below 2^31
ToSmall(a) == Digit(a, 1) + Digit(a, 2) * LimbBase + Digit(a, 3) * LimbBase * LimbBase

\* -1, 0 or 1 as a < b, a = b, a > b
BCmp(a, b) ==
  IF Len(a) < Len(b) THEN -1
  ELSE IF Len(a) > Len(b) THEN 1
  ELSE IF a = b THEN 0
  ELSE LET i == CHOOSE i \in 1..Len(a) :
                  a[i] # b[i] /\ \A j \in (i + 1)..Len(a) : a[j] = b[j]
       IN IF a[i] < b[i] THEN -1 ELSE 1

\* the carry into digit i of a + b: some lower digit overflows and every
\* digit between passes a carry on
CarryIn(a, b, i) ==
  IF \E j \in 1..(i - 1) :
       /\ Digit(a, j) + Digit(b, j) >= LimbBase
       /\ \A k \in (j + 1)..(i - 1) : Digit(a, k) + Digit(b, k) = LimbBase - 1
  THEN 1 ELSE 0

\* a + b; the operands may carry leading zero digits
BAdd(a, b) ==
  BTrim(Vec([i \in 1..(Max(Len(a), Len(b)) + 1) |->
               (Digit(a, i) + Digit(b, i) + CarryIn(a, b, i)) % LimbBase]))

\* the borrow from digit i of a - b
BorrowIn(a, b, i) ==
  IF \E j \in 1..(i - 1) :
       /\ Digit(a, j) < Digit(b, j)
       /\ \A k \in (j + 1)..(i - 1) : Digit(a, k) = Digit(b, k)
  THEN 1 ELSE 0

\* a - b, for a >= b
BSub(a, b) ==
  BTrim(Vec([i \in 1..Len(a) |->
               (Digit(a, i) - Digit(b, i) - BorrowIn(a, b, i) + LimbBase) % LimbBase]))

\* a * k, for 0 <= k <= LimbBase: the low halves of the digit products plus
\* the high halves one place up
BMulSmall(a, k) ==
  LET low  == Vec([i \in 1..Len(a) |-> (a[i] * k) % LimbBase])
      high == <<0>> \o [i \in 1..Len(a) |-> (a[i] * k) \div LimbBase]
  IN BAdd(low, high)

\* column k of the product a * b: the sum of the digit products a[i] * b[j]
\* with i + j = k + 1.  It stays below 2^31 while the shorter factor has at
\* most 7 digits.
RECURSIVE ColumnFrom(_, _, _, _)
ColumnFrom(a, b, k, i) ==
  IF i > Min(k, Len(a)) THEN 0
  ELSE Digit(a, i) * Digit(b, k + 1 - i) + ColumnFrom(a, b, k, i + 1)

\* a * b: the columns, each split into three digits, added up
BMul(a, b) ==
  IF a = <<>> \/ b = <<>> THEN <<>>
  ELSE LET AddUp(col) ==
             BAdd(BAdd(Vec([k \in 1..Len(col) |-> col[k] % LimbBase]),
                       <<0>> \o [k \in 1..Len(col) |-> (col[k] \div LimbBase) % LimbBase]),
                  <<0, 0>> \o [k \in 1..Len(col) |-> col[k] \div (LimbBase * LimbBase)])
       IN AddUp(Vec([k \in 1..(Len(a) + Len(b) - 1) |->
                       ColumnFrom(a, b, k, Max(1, k + 1 - Len(b)))]))

Zeros(n) == [i \in 1..n |-> 0]

\* a * 2^k
BShl(a, k) ==
  IF a = <<>> THEN <<>>
  ELSE LET s == 2 ^ (k % LimbBits)
       IN Zeros(k \div LimbBits) \o
          BTrim(Vec([i \in 1..(Len(a) + 1) |->
                       ((Digit(a, i) * s) % LimbBase) + ((Digit(a, i - 1) * s) \div LimbBase)]))

\* floor(a / 2^k)
BShr(a, k) ==
  LET w == k \div LimbBits
      s == 2 ^ (k % LimbBits)
  IN IF w >= Len(a) THEN <<>>
     ELSE BTrim(Vec([i \in 1..(Len(a) - w) |->
                       (a[i + w] \div s) + (Digit(a, i + w + 1) % s) * (LimbBase \div s)]))

\* the number of binary digits of n, for 0 <= n < 2^31
IntBitLen(n) == Cardinality({k \in 0..30 : 2 ^ k <= n})

\* the number of binary digits of a
BBitLen(a) == IF a = <<>> THEN 0 ELSE LimbBits * (Len(a) - 1) + IntBitLen(a[Len(a)])

\* binary digit i of a (digit 0 is the least significant)
BBit(a, i) ==
  IF i \div LimbBits >= Len(a) THEN 0
  ELSE (a[i \div LimbBits + 1] \div 2 ^ (i % LimbBits)) % 2

\* whether the k lowest binary digits of a are all zero
BLowZero(a, k) ==
  /\ \A i \in 1..Min(k \div LimbBits, Len(a)) : a[i] = 0
  /\ Digit(a, k \div LimbBits + 1) % 2 ^ (k % LimbBits) = 0

\* the number of zero binary digits at the low end of n, for 0 < n < 2^31
IntTrailingZeros(n) == Cardinality({k \in 1..30 : n % 2 ^ k = 0})

\* the same for a nonzero a
BTrailingZeros(a) ==
  LET i == CHOOSE i \in 1..Len(a) : a[i] # 0 /\ \A j \in 1..(i - 1) : a[j] = 0
  IN LimbBits * (i - 1) + IntTrailingZeros(a[i])

\* floor(r / d) for r < d * LimbBase: one digit of a long division.  A d of
\* at most 15 binary digits divides directly.  Otherwise its leading 15
\* binary digits and the digits of r above the same place bound the digit
\* from both sides, and the right one among the few candidates is picked by
\* multiplying back.
QuotientDigit(r, d) ==
  LET Bracketed(dh, rh) ==
        CHOOSE q \in (rh \div (dh + 1))..Min(LimbBase - 1, (rh + 1) \div dh) :
          /\ BCmp(BMulSmall(d, q), r) <= 0
          /\ BCmp(BMulSmall(d, q + 1), r) > 0
      Leading(sh) ==
        IF sh = 0 THEN ToSmall(r) \div ToSmall(d)
        ELSE Bracketed(ToSmall(BShr(d, sh)), ToSmall(BShr(r, sh)))
  IN Leading(Max(0, BBitLen(d) - (LimbBits + 1)))

RECURSIVE BDivLimbs(_, _, _, _, _)
\* Long division of n by d from digit j down, given the digits q found so
\* far and the remainder r they leave; <<digits, remainder>>.
BDivLimbs(n, d, j, q, r) ==
  IF j = 0 THEN <<q, r>>
  ELSE LET GoOn(qj, r3) == After(r3, BDivLimbs(n, d, j - 1, <<qj>> \o q, r3))
           TakeOff(r2, qj) == GoOn(qj, BSub(r2, BMulSmall(d, qj)))
           BringDown(r2) == TakeOff(r2, QuotientDigit(r2, d))
       IN BringDown(BTrim(<<n[j]>> \o r))

\* <<floor(n / d), n mod d>>, for d > 0 (long division).  The leading
\* Len(d) - 1 digits of n are below d and start as the remainder.
BDivMod(n, d) ==
  IF Len(n) < Len(d) THEN <<<<>>, n>>
  ELSE LET Trimmed(x) == <<BTrim(x[1]), x[2]>>
       IN Trimmed(BDivLimbs(n, d, Len(n) - Len(d) + 1, <<>>,
                            BTrim(SubSeq(n, Len(n) - Len(d) + 2, Len(n)))))

(***************************************************************************)
(* PART 1b.  The type double.                                              *)
(* A finite double is [s, m, e]: the value (-1)^s * m * 2^e, with m an odd *)
(* natural number below 2^MantBits, so that equal values have equal        *)
(* representations; zero is [0, <<>>, 0] (the sign of a zero is not kept:  *)
(* the library never divides by a zero).  Every operation computes the     *)
(* exact result and rounds it once, to nearest, ties to even, as the       *)
(* hardware does.  A result that rounds to 2^MaxExp or beyond is an        *)
(* infinity, kept as [s, <<1>>, MaxExp], and an operation without a value  *)
(* (inf - inf, 0 * inf, inf / inf, any operation on a NaN) gives the NaN   *)
(* [0, <<>>, MaxExp].  Exponents are not limited from below: the inputs of *)
(* the state machines keep every nonzero value far above the smallest      *)
(* double.                                                                 *)
(***************************************************************************)
MantBits == 53

\* DBL_MAX_EXP: every finite double is below 2^MaxExp
MaxExp == 1024

DZero == [s |-> 0, m |-> <<>>, e |-> 0]

Inf(s) == [s |-> s, m |-> <<1>>, e |-> MaxExp]

NaN == [s |-> 0, m |-> <<>>, e |-> MaxExp]

IsZero(x) == x.m = <<>> /\ x.e = 0

IsNaN(x) == x.m = <<>> /\ x.e # 0

IsInf(x) == x.m # <<>> /\ x.e >= MaxExp

Finite(x) == ~IsNaN(x) /\ ~IsInf(x)

\* the double whose value is exactly (-1)^s * n * 2^e, for n below 2^MantBits
Canon(s, n, e) ==
  IF n = <<>> THEN DZero
  ELSE LET Odd(tz) == [s |-> s, m |-> BShr(n, tz), e |-> e + tz]
       IN Odd(BTrailingZeros(n))

\* whether (-1)^s * n * 2^e (plus a nonzero amount below 2^e when sticky)
\* is a double
FitsDouble(n, sticky) ==
  /\ ~sticky
  /\ \/ n = <<>>
     \/ BBitLen(n) - BTrailingZeros(n) <= MantBits

\* the double nearest to (-1)^s * n * 2^e (plus a nonzero amount below 2^e
\* when sticky), ties to even
RoundD(s, n, e, sticky) ==
  LET Ranged(x) == IF x.e + BBitLen(x.m) > MaxExp THEN Inf(s) ELSE x
  IN
  IF BBitLen(n) <= MantBits THEN Ranged(Canon(s, n, e))
  ELSE LET Up(drop, q) ==
             /\ BBit(n, drop - 1) = 1
             /\ (sticky \/ ~BLowZero(n, drop - 1) \/ BBit(q, 0) = 1)
           Nearest(drop, q) ==
             Ranged(Canon(s, IF Up(drop, q) THEN BAdd(q, <<1>>) ELSE q, e + drop))
           Dropping(drop) == Nearest(drop, BShr(n, drop))
       IN Dropping(BBitLen(n) - MantBits)

FromInt(n) == IF n < 0 THEN Canon(1, BNat(-n), 0) ELSE Canon(0, BNat(n), 0)

\* x * 2^k, exactly
Scale(x, k) == IF IsZero(x) THEN x ELSE [x EXCEPT !.e = @ + k]

DNeg(x) == IF x.m = <<>> THEN x ELSE [x EXCEPT !.s = 1 - @]

DAbs(x) == [x EXCEPT !.s = 0]

\* the position of the leading binary digit of |x|, plus one
Top(x) == x.e + BBitLen(x.m)

\* -1, 0, 1: |a| compared with |b|
CmpMag(a, b) ==
  IF IsZero(a) \/ IsZero(b) THEN
    (IF IsZero(a) /\ IsZero(b) THEN 0 ELSE IF IsZero(a) THEN -1 ELSE 1)
  ELSE IF Top(a) < Top(b) THEN -1
  ELSE IF Top(a) > Top(b) THEN 1
  ELSE LET AlignedAt(e) == BCmp(BShl(a.m, a.e - e), BShl(b.m, b.e - e))
       IN AlignedAt(Min(a.e, b.e))

\* a < b
DLt(a, b) ==
  IF IsNaN(a) \/ IsNaN(b) THEN FALSE
  ELSE IF a.s = 1 /\ ~IsZero(a) THEN
    (IF b.s = 1 /\ ~IsZero(b) THEN CmpMag(a, b) = 1 ELSE TRUE)
  ELSE
    (IF b.s = 1 /\ ~IsZero(b) THEN FALSE ELSE CmpMag(a, b) = -1)

DGt(a, b) == DLt(b, a)

DLe(a, b) == ~IsNaN(a) /\ ~IsNaN(b) /\ ~DLt(b, a)

\* The exact sum as <<sign, magnitude, exponent>>.  An operand more than
\* FarApart binary places below the other cannot change the rounded sum and
\* is represented by the sticky flag instead.
FarApart == MantBits + 8

ExactSum(a, b) ==
  LET Signed(e, ma, mb) ==
        IF a.s = b.s THEN <<a.s, BAdd(ma, mb), e>>
        ELSE IF BCmp(ma, mb) >= 0 THEN <<a.s, BSub(ma, mb), e>>
        ELSE <<b.s, BSub(mb, ma), e>>
      AlignedAt(e) == Signed(e, BShl(a.m, a.e - e), BShl(b.m, b.e - e))
  IN AlignedAt(Min(a.e, b.e))

\* a + b
DAdd(a, b) ==
  IF IsNaN(a) \/ IsNaN(b) THEN NaN
  ELSE IF IsInf(a) THEN (IF IsInf(b) /\ a.s # b.s THEN NaN ELSE a)
  ELSE IF IsInf(b) THEN b
  ELSE IF IsZero(a) THEN b
  ELSE IF IsZero(b) THEN a
  ELSE IF Top(a) - Top(b) > FarApart THEN a
  ELSE IF Top(b) - Top(a) > FarApart THEN b
  ELSE LET Rounded(x) == RoundD(x[1], x[2], x[3], FALSE)
       IN Rounded(ExactSum(a, b))

\* whether a + b is computed without rounding
AddExact(a, b) ==
  /\ Finite(a)
  /\ Finite(b)
  /\ \/ IsZero(a)
     \/ IsZero(b)
     \/ /\ Top(a) - Top(b) <= FarApart
        /\ Top(b) - Top(a) <= FarApart
        /\ LET Fits(x) == FitsDouble(x[2], FALSE) /\ x[3] + BBitLen(x[2]) <= MaxExp
           IN Fits(ExactSum(a, b))

\* a - b
DSub(a, b) == DAdd(a, DNeg(b))

SubExact(a, b) == AddExact(a, DNeg(b))

\* a * b
DMul(a, b) ==
  IF IsNaN(a) \/ IsNaN(b) THEN NaN
  ELSE IF IsInf(a) \/ IsInf(b)
  THEN (IF IsZero(a) \/ IsZero(b) THEN NaN ELSE Inf((a.s + b.s) % 2))
  ELSE IF IsZero(a) \/ IsZero(b) THEN DZero
  ELSE RoundD((a.s + b.s) % 2, BMul(a.m, b.m), a.e + b.e, FALSE)

MulExact(a, b) ==
  /\ Finite(a)
  /\ Finite(b)
  /\ \/ IsZero(a)
     \/ IsZero(b)
     \/ LET Fits(p) == FitsDouble(p, FALSE) /\ a.e + b.e + BBitLen(p) <= MaxExp
        IN Fits(BMul(a.m, b.m))

\* The quotient of the magnitudes to at least MantBits + 2 binary digits:
\* <<quotient, remainder, shift>>
Quotient(a, b) ==
  LET With(k, qr) == <<qr[1], qr[2], k>>
      ShiftedBy(k) == With(k, BDivMod(BShl(a.m, k), b.m))
  IN ShiftedBy(Max(0, MantBits + 3 + BBitLen(b.m) - BBitLen(a.m)))

\* a / b
DDiv(a, b) ==
  IF IsNaN(a) \/ IsNaN(b) THEN NaN
  ELSE IF IsInf(a) THEN (IF IsInf(b) THEN NaN ELSE Inf((a.s + b.s) % 2))
  ELSE IF IsInf(b) THEN DZero
  ELSE IF IsZero(b) THEN (IF IsZero(a) THEN NaN ELSE Inf(a.s))
  ELSE IF IsZero(a) THEN DZero
  ELSE LET Rounded(q) == RoundD((a.s + b.s) % 2, q[1], a.e - b.e - q[3], q[2] # <<>>)
       IN Rounded(Quotient(a, b))

DivExact(a, b) ==
  /\ Finite(a)
  /\ Finite(b)
  /\ \/ IsZero(a)
     \/ LET Fits(q) == /\ FitsDouble(q[1], q[2] # <<>>)
                       /\ a.e - b.e - q[3] + BBitLen(q[1]) <= MaxExp
        IN Fits(Quotient(a, b))

DOne == FromInt(1)

(***************************************************************************)
(* PART 2.  The class Matrix.                                              *)
(* A Matrix object is [container, nrows, ncols]: the three data members.   *)
(* container is a sequence of rows, each a sequence of doubles; indices    *)
(* are 1-based here and 0-based in the source.  A member function is an    *)
(* operator that yields what the call yields: a return value or the        *)
(* exception thrown.  An exception is [type, kind]: type is the C++ type   *)
(* the throw statement names, kind the error kind of the design's taxonomy *)
(* whose violated precondition the throw statement guards.                 *)
(***************************************************************************)
OPENMP_THRESHOLD == 10000

\* #define EPS 1e-12: the double nearest to 1 / 10^12
EPS == DDiv(DOne, DMul(FromInt(1000000), FromInt(1000000)))

Mat(container, nrows, ncols) ==
  [container |-> container, nrows |-> nrows, ncols |-> ncols]

Throw(type, kind) == [tag |-> "throw", type |-> type, kind |-> kind]

RetMatrix(m) == [tag |-> "matrix", mat |-> m]

RetDouble(x) == [tag |-> "double", val |-> x]

RetBool(b) == [tag |-> "bool", val |-> b]

\* Matrix(std::vector<std::vector<double>>&&, InternalTag)
MatrixInternal(container) ==
  LET nrows == Len(container)
      ncols == IF container = <<>> THEN 0 ELSE Len(container[1])
  IN IF nrows = 0 \/ ncols = 0
     THEN Throw("invalid_argument", "InvalidShape")
     ELSE RetMatrix(Mat(container, nrows, ncols))

\* The constructor for a mistaken version without the loop that compares
\* the row sizes
MatrixCtorUnchecked(container) ==
  IF Len(container) = 0 THEN Throw("invalid_argument", "InvalidShape")
  ELSE RetMatrix(Mat(container, Len(container), Len(container[1])))

\* Matrix(const std::vector<std::vector<double>>&)
MatrixCtor(container) ==
  IF Len(container) = 0 THEN Throw("invalid_argument", "InvalidShape")
  ELSE IF \E i \in 1..Len(container) : Len(container[i]) # Len(container[1])
  THEN Throw("invalid_argument", "InvalidShape")
  ELSE RetMatrix(Mat(container, Len(container), Len(container[1])))

\* Matrix::identity
identity(dim) ==
  MatrixInternal([i \in 1..dim |-> [j \in 1..dim |-> IF i = j THEN DOne ELSE DZero]])

\* Matrix::constValMatrix
constValMatrix(rows, cols, val) ==
  IF rows = 0 \/ cols = 0 THEN Throw("invalid_argument", "InvalidShape")
  ELSE MatrixInternal([i \in 1..rows |-> [j \in 1..cols |-> val]])

\* Matrix::toVector
toVector(this) == this.container

\* The element-wise operators copy *this and replace every cell (i, j) with
\* i < nrows, j < ncols of the copy.
SameShape(this, other) ==
  this.nrows = other.nrows /\ this.ncols = other.ncols

\* Matrix::operator+(const Matrix&)
OpAdd(this, other) ==
  IF ~SameShape(this, other) THEN Throw("invalid_argument", "DimensionMismatch")
  ELSE RetMatrix([this EXCEPT !.container =
         [i \in 1..this.nrows |-> [j \in 1..this.ncols |->
            DAdd(this.container[i][j], other.container[i][j])]]])

\* Matrix::operator+(double)
OpAddScalar(this, scalar) ==
  RetMatrix([this EXCEPT !.container =
    [i \in 1..this.nrows |-> [j \in 1..this.ncols |->
       DAdd(this.container[i][j], scalar)]]])

\* operator- for a mistaken version that subtracts *this from other
OpSubReversed(this, other) ==
  IF ~SameShape(this, other) THEN Throw("invalid_argument", "DimensionMismatch")
  ELSE RetMatrix([this EXCEPT !.container =
         [i \in 1..this.nrows |-> [j \in 1..this.ncols |->
            DSub(other.container[i][j], this.container[i][j])]]])

\* Matrix::operator-(const Matrix&)
OpSub(this, other) ==
  IF ~SameShape(this, other) THEN Throw("invalid_argument", "DimensionMismatch")
  ELSE RetMatrix([this EXCEPT !.container =
         [i \in 1..this.nrows |-> [j \in 1..this.ncols |->
            DSub(this.container[i][j], other.container[i][j])]]])

\* Matrix::operator-(double)
OpSubScalar(this, scalar) ==
  RetMatrix([this EXCEPT !.container =
    [i \in 1..this.nrows |-> [j \in 1..this.ncols |->
       DSub(this.container[i][j], scalar)]]])

\* operator-(double, const Matrix&)
OpScalarSub(scalar, other) ==
  RetMatrix([other EXCEPT !.container =
    [i \in 1..other.nrows |-> [j \in 1..other.ncols |->
       DSub(scalar, other.container[i][j])]]])

\* Matrix::operator==
OpEq(this, other) ==
  /\ SameShape(this, other)
  /\ \A i \in 1..this.nrows : \A j \in 1..this.ncols :
       ~DGt(DAbs(DSub(this.container[i][j], other.container[i][j])), EPS)

\* Matrix::operator!=
OpNeq(this, other) == ~OpEq(this, other)

RECURSIVE MulRowFrom(_, _, _, _, _)
\* The loop over k, from k on, for one i: row is mulResContainer[i].  The
\* loop over j adds Aik * other[k][j] to every cell of the row.
MulRowFrom(this, other, i, k, row) ==
  IF k > this.ncols THEN row
  ELSE LET Aik == this.container[i][k]
           GoOn(next) == After(next, MulRowFrom(this, other, i, k + 1, next))
       IN GoOn(Vec([j \in 1..other.ncols |->
                      DAdd(row[j], DMul(Aik, other.container[k][j]))]))

\* Matrix::operator*(const Matrix&), the loops run by one thread
OpMul(this, other) ==
  IF this.ncols # other.nrows THEN Throw("invalid_argument", "DimensionMismatch")
  ELSE MatrixInternal(
         [i \in 1..this.nrows |->
            MulRowFrom(this, other, i, 1, [j \in 1..other.ncols |-> DZero])])

\* Matrix::operator*(double)
OpMulScalar(this, scalar) ==
  RetMatrix([this EXCEPT !.container =
    [i \in 1..this.nrows |-> [j \in 1..this.ncols |->
       DMul(this.container[i][j], scalar)]]])

\* Matrix::operator/(double)
OpDivScalar(this, scalar) ==
  IF IsZero(scalar) THEN Throw("runtime_error", "DivisionByZero")
  ELSE OpMulScalar(this, DDiv(DOne, scalar))

\* The value of a double that holds a small integer
ToInt(x) ==
  IF IsZero(x) THEN 0
  ELSE (IF x.s = 1 THEN -1 ELSE 1) * x.m[1] * 2 ^ x.e

RECURSIVE PowNat(_, _)
PowNat(x, k) == IF k = 0 THEN DOne ELSE DMul(x, PowNat(x, k - 1))

\* pow(x, y) of <cmath> for y holding an integer; x is nonzero when y < 0
pow(x, y) ==
  IF ToInt(y) >= 0 THEN PowNat(x, ToInt(y))
  ELSE DDiv(DOne, PowNat(x, -ToInt(y)))

\* The position, counting row by row from 1, of the first cell of the
\* container that holds zero; 0 when no cell does.
FirstZero(container) ==
  LET cells == {<<i, j>> \in (1..Len(container)) \X (1..Len(container[1])) :
                  IsZero(container[i][j])}
      pos(c) == (c[1] - 1) * Len(container[1]) + c[2]
  IN IF cells = {} THEN 0
     ELSE pos(CHOOSE c \in cells : \A d \in cells : pos(c) <= pos(d))

\* The loop of operator^ run on the matrix expRes: where it stops and what it
\* leaves in expRes.  It throws at the first zero cell when scalar <= 0; the
\* cells before it have been raised to the power by then.
PowLoop(expRes, scalar) ==
  LET fz     == FirstZero(expRes.container)
      thrown == fz # 0 /\ DLe(scalar, DZero)
      ncols  == Len(expRes.container[1])
  IN [thrown |-> thrown,
      expRes |-> [expRes EXCEPT !.container =
         [i \in 1..Len(expRes.container) |-> [j \in 1..Len(expRes.container[i]) |->
            IF thrown /\ (i - 1) * ncols + j >= fz
            THEN expRes.container[i][j]
            ELSE pow(expRes.container[i][j], scalar)]]]]

\* operator^ for a mistaken version that tests scalar < 0 before it throws
OpPowStrict(this, scalar) ==
  IF scalar = DOne THEN RetMatrix(this)
  ELSE IF FirstZero(this.container) # 0 /\ DLt(scalar, DZero)
  THEN Throw("runtime_error", "DivisionByZero")
  ELSE RetMatrix([this EXCEPT !.container =
         [i \in 1..Len(this.container) |-> [j \in 1..Len(this.container[i]) |->
            pow(this.container[i][j], scalar)]]])

\* Matrix::operator^(double): the value of the call
OpPow(this, scalar) ==
  IF scalar = DOne THEN RetMatrix(this)
  ELSE LET Outcome(loop) ==
             IF loop.thrown THEN Throw("runtime_error", "DivisionByZero")
             ELSE RetMatrix(loop.expRes)
       IN Outcome(PowLoop(this, scalar))

\* *this as operator^ leaves it, for a mistaken version running its loop on
\* the members of *this
PowThisInPlace(this, scalar) ==
  IF scalar = DOne THEN this ELSE PowLoop(this, scalar).expRes

\* Matrix::operator^(double): *this after the call.  The loop runs on the
\* copy expRes.
PowThis(this, scalar) == this

\* Matrix::operator()(size_t, size_t): the exception, or "ref" for a
\* reference to container[row][col]
OpAt(this, row, col) ==
  IF row >= this.nrows \/ col >= this.ncols
  THEN Throw("out_of_range", "IndexOutOfRange")
  ELSE [tag |-> "ref", row |-> row, col |-> col]

\* *this after the assignment m(row, col) = val through the reference
AssignAt(this, row, col, val) ==
  IF OpAt(this, row, col).tag = "throw" THEN this
  ELSE [this EXCEPT !.container[row + 1][col + 1] = val]

\* Matrix::transpose
transpose(this) ==
  MatrixInternal([j \in 1..this.ncols |-> [i \in 1..this.nrows |-> this.container[i][j]]])

\* The pivot search of inverse: the first row among i..n with the largest
\* |A[row][i]|, rows and columns counted from 1
RECURSIVE PivotFrom(_, _, _, _)
PivotFrom(A, i, j, pivot) ==
  IF j > Len(A) THEN pivot
  ELSE IF DGt(DAbs(A[j][i]), DAbs(A[pivot][i])) THEN PivotFrom(A, i, j + 1, j)
  ELSE PivotFrom(A, i, j + 1, pivot)

\* std::swap of two rows of a container
SwapRows(c, i, pivot) == [c EXCEPT ![i] = c[pivot], ![pivot] = c[i]]

\* The row c[i] divided by pivotVal, cell by cell
NormalizeRow(c, i, pivotVal) ==
  [c EXCEPT ![i] = Vec([j \in 1..Len(c[i]) |-> DDiv(c[i][j], pivotVal)])]

\* Eliminate for a mistaken version that clears the column below the pivot
\* only
EliminateBelow(c, i, factor) ==
  Vec([k \in 1..Len(c) |->
         IF k <= i THEN c[k]
         ELSE Vec([j \in 1..Len(c[k]) |-> DSub(c[k][j], DMul(factor[k], c[i][j]))])])

\* c[k][j] -= factor[k] * c[i][j] for every row k other than i
Eliminate(c, i, factor) ==
  Vec([k \in 1..Len(c) |->
         IF k = i THEN c[k]
         ELSE Vec([j \in 1..Len(c[k]) |-> DSub(c[k][j], DMul(factor[k], c[i][j]))])])

\* Whether the divisions of NormalizeRow are all exact
NormalizeExact(c, i, pivotVal) ==
  \A j \in 1..Len(c[i]) : DivExact(c[i][j], pivotVal)

\* Whether the products and differences of Eliminate are all exact
EliminateExact(c, i, factor) ==
  \A k \in (1..Len(c)) \ {i} : \A j \in 1..Len(c[k]) :
     /\ MulExact(factor[k], c[i][j])
     /\ SubExact(c[k][j], DMul(factor[k], c[i][j]))

\* The Gauss-Jordan loop of inverse from column i on.  st.A is the working
\* copy, st.I the matrix that started as the identity, st.singular says that
\* the loop has thrown, st.exact that no operation so far has rounded.
RECURSIVE InverseFrom(_, _)
InverseFrom(st, i) ==
  IF i > Len(st.A) THEN st
  ELSE LET GoOn(next) == After(next, InverseFrom(next, i + 1))
           Cleared(A1, I1, pivotVal, A2, I2, factor) ==
             GoOn([A |-> Eliminate(A2, i, factor),
                   I |-> Eliminate(I2, i, factor),
                   singular |-> FALSE,
                   exact |-> /\ st.exact
                             /\ NormalizeExact(A1, i, pivotVal)
                             /\ NormalizeExact(I1, i, pivotVal)
                             /\ EliminateExact(A2, i, factor)
                             /\ EliminateExact(I2, i, factor)])
           Normalized(A1, I1, pivotVal, A2, I2) ==
             After(<<A2, I2>>,
                   Cleared(A1, I1, pivotVal, A2, I2, Vec([k \in 1..Len(A2) |-> A2[k][i]])))
           Swapped(A1, I1, pivotVal) ==
             Normalized(A1, I1, pivotVal,
                        NormalizeRow(A1, i, pivotVal), NormalizeRow(I1, i, pivotVal))
           Found(pivot) ==
             IF DLt(DAbs(st.A[pivot][i]), EPS) THEN [st EXCEPT !.singular = TRUE]
             ELSE Swapped(SwapRows(st.A, i, pivot), SwapRows(st.I, i, pivot),
                          st.A[pivot][i])
       IN Found(PivotFrom(st.A, i, i + 1, i))

\* The loop of inverse on a square matrix, started on a copy of *this and on
\* identity(n)
InverseLoop(this) ==
  InverseFrom([A |-> this.container, I |-> identity(this.nrows).mat.container,
               singular |-> FALSE, exact |-> TRUE], 1)

\* Matrix::inverse
inverse(this) ==
  IF this.nrows # this.ncols THEN Throw("invalid_argument", "NotSquare")
  ELSE LET Outcome(st) ==
             IF st.singular THEN Throw("runtime_error", "SingularMatrix")
             ELSE RetMatrix(Mat(st.I, this.nrows, this.nrows))
       IN Outcome(InverseLoop(this))

\* Matrix::inverse: *this after the call.  The elimination runs on the copy A.
InverseThis(this) == this

\* Row j of LU after the inner loops of determinant for column i, given the
\* multiplier f = LU[j][i] / LU[i][i]: the multiplier is stored in column i
\* and f * LU[i][k] is taken off every cell to the right of it
DetRow(LU, i, j, f) ==
  Vec([k \in 1..Len(LU[j]) |->
         IF k < i THEN LU[j][k]
         ELSE IF k = i THEN f
         ELSE DSub(LU[j][k], DMul(f, LU[i][k]))])

\* DetEliminate for a mistaken version that takes the pivot row off without
\* the multiplier
DetEliminateUnscaled(LU, i) ==
  Vec([j \in 1..Len(LU) |->
         IF j <= i THEN LU[j] ELSE DetRow(LU, i, j, DOne)])

\* The loop over the rows j below the pivot row i
DetEliminate(LU, i) ==
  Vec([j \in 1..Len(LU) |->
         IF j <= i THEN LU[j] ELSE DetRow(LU, i, j, DDiv(LU[j][i], LU[i][i]))])

\* Whether the operations of DetRow are all exact
DetRowExact(LU, i, j, f) ==
  \A k \in (i + 1)..Len(LU[j]) :
     /\ MulExact(f, LU[i][k])
     /\ SubExact(LU[j][k], DMul(f, LU[i][k]))

\* Whether the operations of DetEliminate are all exact
DetEliminateExact(LU, i) ==
  \A j \in (i + 1)..Len(LU) :
     /\ DivExact(LU[j][i], LU[i][i])
     /\ DetRowExact(LU, i, j, DDiv(LU[j][i], LU[i][i]))

\* The elimination loop of determinant from column i on.  st.LU is the
\* working copy, st.numRowSwaps the swap counter, st.zero says that the loop
\* has returned 0.0, st.dropped that it did so on a pivot column that was not
\* all zero, st.exact that no operation so far has rounded.
RECURSIVE DeterminantFrom(_, _)
DeterminantFrom(st, i) ==
  IF i > Len(st.LU) THEN st
  ELSE LET GoOn(next) == After(next, DeterminantFrom(next, i + 1))
           Swapped(LU1, swaps) ==
             GoOn([LU |-> DetEliminate(LU1, i), numRowSwaps |-> swaps,
                   zero |-> FALSE, dropped |-> FALSE,
                   exact |-> st.exact /\ DetEliminateExact(LU1, i)])
           Found(pivotRow) ==
             IF DLt(DAbs(DAbs(st.LU[pivotRow][i])), EPS)
             THEN [st EXCEPT !.zero = TRUE,
                             !.dropped = ~IsZero(st.LU[pivotRow][i])]
             ELSE IF pivotRow # i
             THEN Swapped(SwapRows(st.LU, i, pivotRow), st.numRowSwaps + 1)
             ELSE Swapped(st.LU, st.numRowSwaps)
       IN Found(PivotFrom(st.LU, i, i + 1, i))

\* The elimination loop of determinant, started on a copy of the container
DeterminantLoop(this) ==
  DeterminantFrom([LU |-> this.container, numRowSwaps |-> 0, zero |-> FALSE,
                   dropped |-> FALSE, exact |-> TRUE], 1)

\* det *= LU[1][1]; ...; det *= LU[n][n], in this order
RECURSIVE DiagonalProduct(_, _, _)
DiagonalProduct(LU, n, det) ==
  IF n = 0 THEN det ELSE DMul(DiagonalProduct(LU, n - 1, det), LU[n][n])

\* Whether the multiplications of DiagonalProduct are all exact
DiagonalExact(LU, det) ==
  \A n \in 1..Len(LU) : MulExact(DiagonalProduct(LU, n - 1, det), LU[n][n])

\* (numRowSwaps % 2 == 0) ? 1.0 : -1.0
SwapSign(numRowSwaps) == IF numRowSwaps % 2 = 0 THEN DOne ELSE DNeg(DOne)

\* Matrix::determinant
determinant(this) ==
  IF this.nrows # this.ncols THEN Throw("invalid_argument", "NotSquare")
  ELSE LET Outcome(st) ==
             IF st.zero THEN RetDouble(DZero)
             ELSE RetDouble(DiagonalProduct(st.LU, Len(st.LU), SwapSign(st.numRowSwaps)))
       IN Outcome(DeterminantLoop(this))

\* Whether determinant computes its value without rounding, and without
\* giving up a pivot column that holds a nonzero cell
DeterminantExact(this) ==
  LET Through(st) ==
        /\ st.exact
        /\ ~st.dropped
        /\ st.zero \/ DiagonalExact(st.LU, SwapSign(st.numRowSwaps))
  IN Through(DeterminantLoop(this))

\* The minor of _det: the rows after the first without column col
Minor(matrix, col) ==
  [i \in 1..(Len(matrix) - 1) |->
     [j \in 1..(Len(matrix) - 1) |->
        matrix[i + 1][IF j < col THEN j ELSE j + 1]]]

\* sign in _det, for col counted from 1
CofactorSign(col) == IF col % 2 = 1 THEN DOne ELSE DNeg(DOne)

\* Matrix::_det: cofactor expansion along the first row
RECURSIVE _det(_)
RECURSIVE CofactorSum(_, _)
CofactorSum(matrix, col) ==
  IF col = 0 THEN DZero
  ELSE DAdd(CofactorSum(matrix, col - 1),
            DMul(DMul(CofactorSign(col), matrix[1][col]), _det(Minor(matrix, col))))

_det(matrix) ==
  IF Len(matrix) = 1 THEN matrix[1][1]
  ELSE IF Len(matrix) = 2
  THEN DSub(DMul(matrix[1][1], matrix[2][2]), DMul(matrix[1][2], matrix[2][1]))
  ELSE CofactorSum(matrix, Len(matrix))

\* Whether _det computes its value without rounding
RECURSIVE CofactorExact(_)
CofactorExact(matrix) ==
  IF Len(matrix) = 1 THEN TRUE
  ELSE IF Len(matrix) = 2
  THEN /\ MulExact(matrix[1][1], matrix[2][2])
       /\ MulExact(matrix[1][2], matrix[2][1])
       /\ SubExact(DMul(matrix[1][1], matrix[2][2]), DMul(matrix[1][2], matrix[2][1]))
  ELSE \A col \in 1..Len(matrix) :
         /\ CofactorExact(Minor(matrix, col))
         /\ MulExact(DMul(CofactorSign(col), matrix[1][col]), _det(Minor(matrix, col)))
         /\ AddExact(CofactorSum(matrix, col - 1),
                     DMul(DMul(CofactorSign(col), matrix[1][col]),
                          _det(Minor(matrix, col))))

\* std::vector::insert before position idx (idx counts from 0)
InsertAt(v, idx, x) == SubSeq(v, 1, idx) \o <<x>> \o SubSeq(v, idx + 1, Len(v))

\* insertRow for a mistaken version that refuses the index one past the last
\* row
insertRowInside(this, row, idx) ==
  IF this.ncols # Len(row) THEN Throw("invalid_argument", "DimensionMismatch")
  ELSE IF idx >= this.nrows THEN Throw("invalid_argument", "IndexOutOfRange")
  ELSE RetMatrix([this EXCEPT !.container = InsertAt(this.container, idx, row),
                              !.nrows = this.nrows + 1])

\* Matrix::insertRow(std::vector<double>, size_t)
insertRow(this, row, idx) ==
  IF this.ncols # Len(row) THEN Throw("invalid_argument", "DimensionMismatch")
  ELSE IF idx > this.nrows THEN Throw("invalid_argument", "IndexOutOfRange")
  ELSE RetMatrix([this EXCEPT !.container = InsertAt(this.container, idx, row),
                              !.nrows = this.nrows + 1])

\* insertRow(double, size_t) for a mistaken version that appends the new row
\* whatever the index
insertRowValLast(this, rowVal, idx) ==
  IF idx > this.nrows THEN Throw("invalid_argument", "IndexOutOfRange")
  ELSE RetMatrix([this EXCEPT
         !.container = Append(this.container, [j \in 1..this.ncols |-> rowVal]),
         !.nrows = this.nrows + 1])

\* Matrix::insertRow(double, size_t)
insertRowVal(this, rowVal, idx) ==
  IF idx > this.nrows THEN Throw("invalid_argument", "IndexOutOfRange")
  ELSE RetMatrix([this EXCEPT
         !.container = InsertAt(this.container, idx, [j \in 1..this.ncols |-> rowVal]),
         !.nrows = this.nrows + 1])

\* insertCol for a mistaken version that inserts into every row and leaves
\* the column counter of the copy as it was
insertColStaleCount(this, col, idx) ==
  IF this.nrows # Len(col) THEN Throw("invalid_argument", "DimensionMismatch")
  ELSE IF idx > this.ncols THEN Throw("invalid_argument", "IndexOutOfRange")
  ELSE RetMatrix([this EXCEPT
         !.container = [i \in 1..Len(this.container) |->
                          InsertAt(this.container[i], idx, col[i])]])

\* Matrix::insertCol(std::vector<double>, size_t)
insertCol(this, col, idx) ==
  IF this.nrows # Len(col) THEN Throw("invalid_argument", "DimensionMismatch")
  ELSE IF idx > this.ncols THEN Throw("invalid_argument", "IndexOutOfRange")
  ELSE RetMatrix([this EXCEPT
         !.container = [i \in 1..Len(this.container) |->
                          InsertAt(this.container[i], idx, col[i])],
         !.ncols = this.ncols + 1])

\* Matrix::insertCol(double, size_t)
insertColVal(this, colVal, idx) ==
  IF idx > this.ncols THEN Throw("invalid_argument", "IndexOutOfRange")
  ELSE RetMatrix([this EXCEPT
         !.container = [i \in 1..Len(this.container) |->
                          InsertAt(this.container[i], idx, colVal)],
         !.ncols = this.ncols + 1])

\* Matrix::hStack
hStack(this, other) ==
  IF this.nrows # other.nrows THEN Throw("invalid_argument", "DimensionMismatch")
  ELSE RetMatrix([this EXCEPT
         !.container = [i \in 1..Len(this.container) |->
                          this.container[i] \o other.container[i]],
         !.ncols = this.ncols + other.ncols])

\* vStack for a mistaken version that puts the rows of other first
vStackAbove(this, other) ==
  IF this.ncols # other.ncols THEN Throw("invalid_argument", "DimensionMismatch")
  ELSE RetMatrix([this EXCEPT !.container = other.container \o this.container,
                              !.nrows = this.nrows + other.nrows])

\* Matrix::vStack
vStack(this, other) ==
  IF this.ncols # other.ncols THEN Throw("invalid_argument", "DimensionMismatch")
  ELSE RetMatrix([this EXCEPT !.container = this.container \o other.container,
                              !.nrows = this.nrows + other.nrows])

\* The orders std::shuffle can leave n rows in: order[i] is the old position
\* of the row that ends at position i
Orders(n) == {f \in [1..n -> 1..n] : \A i, j \in 1..n : f[i] = f[j] => i = j}

\* shuffleRows for a mistaken shuffle that copies the row it draws first into
\* every position
shuffleRowsRepeating(this, order) ==
  [this EXCEPT !.container = [i \in 1..Len(this.container) |-> this.container[order[1]]]]

\* Matrix::shuffleRows: *this after the call, for the order the generator
\* produces
shuffleRows(this, order) ==
  [this EXCEPT !.container = [i \in 1..Len(this.container) |-> this.container[order[i]]]]

\* The largest size_t.  Only its being above every dimension matters here, so
\* 2^30 - 1 stands for 2^64 - 1.
SizeMax == 2 ^ 30 - 1

\* second - 1 on size_t
SizeDec(x) == IF x = 0 THEN SizeMax ELSE x - 1

\* extractMatrix for the earlier revision whose slices are end-inclusive
extractMatrixInclusive(this, rowSlice, colSlice) ==
  LET rowStart == rowSlice[1]
      rowEnd   == rowSlice[2]
      colStart == colSlice[1]
      colEnd   == colSlice[2]
  IN IF \/ rowStart >= this.nrows
        \/ rowEnd >= this.nrows
        \/ rowStart > rowEnd
        \/ colStart >= this.ncols
        \/ colEnd >= this.ncols
        \/ colStart > colEnd
     THEN Throw("out_of_range", "IndexOutOfRange")
     ELSE MatrixInternal([i \in 1..(rowEnd - rowStart + 1) |->
                            [j \in 1..(colEnd - colStart + 1) |->
                               this.container[rowStart + i][colStart + j]]])

\* extractMatrix for a mistaken version that refuses a slice of one row or
\* one column
extractMatrixStrict(this, rowSlice, colSlice) ==
  LET rowStart == rowSlice[1]
      rowEnd   == SizeDec(rowSlice[2])
      colStart == colSlice[1]
      colEnd   == SizeDec(colSlice[2])
  IN IF \/ rowStart >= this.nrows
        \/ rowEnd >= this.nrows
        \/ rowStart >= rowEnd
        \/ colStart >= this.ncols
        \/ colEnd >= this.ncols
        \/ colStart >= colEnd
     THEN Throw("out_of_range", "IndexOutOfRange")
     ELSE MatrixInternal([i \in 1..(rowEnd - rowStart + 1) |->
                            [j \in 1..(colEnd - colStart + 1) |->
                               this.container[rowStart + i][colStart + j]]])

\* Matrix::extractMatrix; a slice is <<first, second>>, end-exclusive
extractMatrix(this, rowSlice, colSlice) ==
  LET rowStart == rowSlice[1]
      rowEnd   == SizeDec(rowSlice[2])
      colStart == colSlice[1]
      colEnd   == SizeDec(colSlice[2])
  IN IF \/ rowStart >= this.nrows
        \/ rowEnd >= this.nrows
        \/ rowStart > rowEnd
        \/ colStart >= this.ncols
        \/ colEnd >= this.ncols
        \/ colStart > colEnd
     THEN Throw("out_of_range", "IndexOutOfRange")
     ELSE MatrixInternal([i \in 1..(rowEnd - rowStart + 1) |->
                            [j \in 1..(colEnd - colStart + 1) |->
                               this.container[rowStart + i][colStart + j]]])

\* The cells this->container[i][j] that extractMatrix reads, as <<i, j>>
\* counted from 0: those of the loops of lines 848-854, which the throw of
\* line 834 precedes
extractReads(this, rowSlice, colSlice) ==
  IF extractMatrix(this, rowSlice, colSlice).tag = "throw" THEN {}
  ELSE {<<i, j>> : i \in rowSlice[1]..SizeDec(rowSlice[2]),
                   j \in colSlice[1]..SizeDec(colSlice[2])}

\* Matrix::extractRow
extractRow(this, rowIdx) ==
  IF rowIdx >= this.nrows THEN Throw("invalid_argument", "IndexOutOfRange")
  ELSE MatrixInternal(<<this.container[rowIdx + 1]>>)

\* Matrix::extractCol
extractCol(this, colIdx) ==
  IF colIdx >= this.ncols THEN Throw("invalid_argument", "IndexOutOfRange")
  ELSE extractMatrix(this, <<0, this.nrows>>, <<colIdx, colIdx + 1>>)

\* total += v[1]; ...; total += v[n], in this order
RECURSIVE Accumulate(_, _, _)
Accumulate(v, n, total) ==
  IF n = 0 THEN total ELSE DAdd(Accumulate(v, n - 1, total), v[n])

\* Matrix::sum()
sum(this) ==
  IF this.ncols # 1 /\ this.nrows # 1 THEN Throw("invalid_argument", "NotVector")
  ELSE IF this.nrows = 1
  THEN RetDouble(Accumulate(this.container[1], Len(this.container[1]), DZero))
  ELSE RetDouble(Accumulate([i \in 1..Len(this.container) |-> this.container[i][1]],
                            Len(this.container), DZero))

\* The elements the loops of sum and sum(double) visit, in their order: those
\* of container[0] for a row matrix, else row[0] of every row
VectorElements(this) ==
  IF this.nrows = 1 THEN this.container[1]
  ELSE [i \in 1..Len(this.container) |-> this.container[i][1]]

\* Matrix::sum(double power): the loop throws at the first element that is
\* zero when power <= 0
sumPower(this, power) ==
  IF this.ncols # 1 /\ this.nrows # 1 THEN Throw("invalid_argument", "NotVector")
  ELSE LET Total(v) ==
             IF \E k \in 1..Len(v) : IsZero(v[k]) /\ DLe(power, DZero)
             THEN Throw("runtime_error", "DivisionByZero")
             ELSE RetDouble(Accumulate([k \in 1..Len(v) |-> pow(v[k], power)],
                                       Len(v), DZero))
       IN Total(VectorElements(this))

\* mean for a mistaken version that always divides by the number of rows
meanByRows(this) ==
  LET Over(s, count) ==
        IF s.tag = "throw" THEN s ELSE RetDouble(DDiv(s.val, FromInt(count)))
  IN Over(sum(this), this.nrows)

\* Matrix::mean
mean(this) ==
  LET Over(s, count) ==
        IF s.tag = "throw" THEN s ELSE RetDouble(DDiv(s.val, FromInt(count)))
  IN Over(sum(this), IF this.nrows = 1 THEN this.ncols ELSE this.nrows)

\* trace for a mistaken version that sums the diagonal of whatever shape it
\* is given
traceAnyShape(this) ==
  RetDouble(Accumulate([i \in 1..Min(this.nrows, this.ncols) |-> this.container[i][i]],
                       Min(this.nrows, this.ncols), DZero))

\* Matrix::trace
trace(this) ==
  IF this.nrows # this.ncols THEN Throw("invalid_argument", "NotSquare")
  ELSE RetDouble(Accumulate([i \in 1..this.nrows |-> this.container[i][i]],
                            this.nrows, DZero))

-----------------------------------------------------------------------------
(* Part 3.  The state of a program using the library.

   A, B   the two Matrix objects the program holds
   R      the last call: its name, its arguments other than matrices, its
          operands as they were and as they are left, and what it gave back
   steps  the number of calls made so far
   caught the exceptions the program has caught so far, each with the C++
          type it was caught as and the error kind that raised it
   call   an operator+ or operator* call whose loop is being run, iteration
          by iteration, by the threads of the parallel region
   res    the cells of addRes / mulResContainer during that call
   th     per thread of the region: the next collapsed iteration, the column
          j reached inside it, whether the cell has been read and not yet
          written back, and the value read
   stdShuffle  what std::shuffle does in this build with a std::mt19937
          that has just been seeded: per seed and per number of rows, the
          order it leaves the rows in
   heap   the storage of the containers of a program whose objects are
          followed by address (Part 12): heap[a] is the content of the
          std::vector allocated a-th                                        *)

VARIABLES A, B, R, steps, caught, call, res, th, stdShuffle, heap

vars == <<A, B, R, steps, caught, call, res, th, stdShuffle, heap>>

NoMatrix == [tag |-> "none"]

NoCall == [status |-> "none"]

-----------------------------------------------------------------------------
(* Part 4.  The parallel loops of operator+ and operator*.

   The operands are constValMatrix(rows, cols, val) matrices, as in the
   benchmark of test/myTest.cpp, kept as <<rows, cols, val>>.  Their values
   and every sum below are integers far below 2^53, which double arithmetic
   adds and multiplies exactly, so the cells are kept as integers here.     *)

\* Threads of a parallel region
NumThreads == 2

\* Iterations at each end of a thread's share that are followed one read and
\* one write at a time; the iterations between run as one step.
Edge == 1

BigDim == OPENMP_THRESHOLD + 1

ParOperands ==
  {<<1, BigDim, 1>>, <<2, (BigDim + 1) \div 2, 1>>, <<BigDim, 1, 1>>,
   <<1, BigDim, 2>>, <<2, 2, 1>>, <<2, 1, 3>>, <<1, 2, 1>>}

\* The calls followed: small results only
ParCalls ==
  {c \in [op : {"add", "mul"}, this : ParOperands, other : ParOperands] :
     \/ c.op = "add" /\ c.this[3] = 1 /\ c.other[3] = 1
                     /\ (c.this[1] = 1 \/ c.this[1] * c.this[2] <= 2 * 2)
     \/ c.op = "mul" /\ c.this[1] * c.other[2] <= 2 * 2
                     /\ c.this[3] * c.other[3] \in {1, 2, 6}}

\* The dimension check at the head of operator+ / operator*
ParMismatch(c) ==
  IF c.op = "add" THEN c.this[1] # c.other[1] \/ c.this[2] # c.other[2]
  ELSE c.this[2] # c.other[1]

\* totalElements, and so the number of iterations of the collapsed loops
totalElements(c) == c.this[2] * c.this[1]

\* if(totalElements > OPENMP_THRESHOLD): the threads running the loop
TeamSize(c) == IF totalElements(c) > OPENMP_THRESHOLD THEN NumThreads ELSE 1

\* Static schedule: thread t runs the iterations ChunkLo .. ChunkHi - 1
ChunkSize(c) == (totalElements(c) + TeamSize(c) - 1) \div TeamSize(c)

ChunkLo(c, t) == Min((t - 1) * ChunkSize(c), totalElements(c))

ChunkHi(c, t) == Min(t * ChunkSize(c), totalElements(c))

\* Columns of the innermost loop of an iteration: other.ncols for operator*,
\* none besides the cell itself for operator+
InnerCount(c) == IF c.op = "mul" THEN c.other[2] ELSE 1

\* The cell <<i, j>> that iteration q touches at inner column j
CellOf(c, q, j) ==
  IF c.op = "mul" THEN <<q \div c.this[2], j>>
  ELSE <<q \div c.this[2], q % c.this[2]>>

\* What the iteration adds to the cell: Aik * other[k][j], or other[i][j]
Addend(c) == IF c.op = "mul" THEN c.this[3] * c.other[3] ELSE c.other[3]

\* mulResContainer(nrows, vector(other.ncols, 0.0)), or the copy of *this
InitialCells(c) ==
  IF c.op = "mul"
  THEN [x \in (0..(c.this[1] - 1)) \X (0..(c.other[2] - 1)) |-> 0]
  ELSE [x \in (0..(c.this[1] - 1)) \X (0..(c.this[2] - 1)) |-> c.this[3]]

\* How many of the iterations from .. to - 1 touch cell x
IterationsOn(c, x, from, to) ==
  IF c.op = "mul"
  THEN Max(0, Min(to, (x[1] + 1) * c.this[2]) - Max(from, x[1] * c.this[2]))
  ELSE IF from <= x[1] * c.this[2] + x[2] /\ x[1] * c.this[2] + x[2] < to THEN 1 ELSE 0

\* The cells after one thread has run the iterations from .. to - 1 with no
\* other thread in between
RunIterations(c, cells, from, to) ==
  [x \in DOMAIN cells |-> cells[x] + IterationsOn(c, x, from, to) * Addend(c)]

\* The program calls this + other or this * other
ParInit ==
  /\ call \in {[op |-> c.op, this |-> c.this, other |-> c.other, status |-> "called"] :
                 c \in ParCalls}
  /\ res = <<>>
  /\ th = <<>>
  /\ A = NoMatrix /\ B = NoMatrix /\ R = NoCall /\ steps = 0 /\ caught = {}
  /\ stdShuffle = <<>> /\ heap = <<>>

\* The dimension check fails: std::invalid_argument, before any loop
ParReject ==
  /\ call.status = "called"
  /\ ParMismatch(call)
  /\ call' = [call EXCEPT !.status = "thrown"]
  /\ UNCHANGED <<heap, stdShuffle, A, B, R, steps, res, th, caught>>

\* The result container is made and the loop is handed to the threads
ParEnter ==
  /\ call.status = "called"
  /\ ~ParMismatch(call)
  /\ call' = [call EXCEPT !.status = "region"]
  /\ res' = InitialCells(call)
  /\ th' = [t \in 1..TeamSize(call) |->
              [pos |-> ChunkLo(call, t), j |-> 0, phase |-> "read", reg |-> 0]]
  /\ UNCHANGED <<heap, stdShuffle, A, B, R, steps, caught>>

\* Whether iteration pos of thread t is one followed read by read
AtEdge(t) ==
  \/ th[t].pos < ChunkLo(call, t) + Edge
  \/ th[t].pos >= ChunkHi(call, t) - Edge

\* Thread t reads the cell of its += 
ParRead(t) ==
  /\ call.status = "region"
  /\ th[t].phase = "read"
  /\ th[t].pos < ChunkHi(call, t)
  /\ AtEdge(t)
  /\ th' = [th EXCEPT ![t].reg = res[CellOf(call, th[t].pos, th[t].j)],
                      ![t].phase = "write"]
  /\ UNCHANGED <<heap, stdShuffle, A, B, R, steps, call, res, caught>>

\* Thread t writes the sum back and moves to the next j, or the next iteration
ParWrite(t) ==
  /\ call.status = "region"
  /\ th[t].phase = "write"
  /\ res' = [res EXCEPT ![CellOf(call, th[t].pos, th[t].j)] = th[t].reg + Addend(call)]
  /\ th' = [th EXCEPT
              ![t].phase = "read",
              ![t].j = IF th[t].j + 1 = InnerCount(call) THEN 0 ELSE th[t].j + 1,
              ![t].pos = IF th[t].j + 1 = InnerCount(call) THEN th[t].pos + 1
                         ELSE th[t].pos]
  /\ UNCHANGED <<heap, stdShuffle, A, B, R, steps, call, caught>>

\* Thread t runs the middle of its share while the others wait
ParRun(t) ==
  /\ call.status = "region"
  /\ th[t].phase = "read"
  /\ th[t].j = 0
  /\ th[t].pos < ChunkHi(call, t) - Edge
  /\ res' = RunIterations(call, res, th[t].pos, ChunkHi(call, t) - Edge)
  /\ th' = [th EXCEPT ![t].pos = ChunkHi(call, t) - Edge]
  /\ UNCHANGED <<heap, stdShuffle, A, B, R, steps, call, caught>>

\* All threads have finished their shares: the call returns the matrix
ParReturn ==
  /\ call.status = "region"
  /\ \A t \in DOMAIN th : th[t].pos = ChunkHi(call, t)
  /\ call' = [call EXCEPT !.status = "returned"]
  /\ UNCHANGED <<heap, stdShuffle, A, B, R, steps, res, th, caught>>

ParNext ==
  \/ ParReject
  \/ ParEnter
  \/ \E t \in DOMAIN th : ParRead(t)
  \/ \E t \in DOMAIN th : ParWrite(t)
  \/ \E t \in DOMAIN th : ParRun(t)
  \/ ParReturn

SpecPar == ParInit /\ [][ParNext]_vars

\* The cells thread t has written, or has read in order to write
Touched(t) ==
  {CellOf(call, q, j) : q \in ChunkLo(call, t)..(th[t].pos - 1),
                        j \in 0..(InnerCount(call) - 1)}
  \cup {CellOf(call, th[t].pos, j) : j \in 0..(th[t].j - 1)}
  \cup (IF th[t].phase = "write" THEN {CellOf(call, th[t].pos, th[t].j)} ELSE {})

\* The result of the loops run by one thread, i then k then j
SequentialCells(c) == RunIterations(c, InitialCells(c), 0, totalElements(c))

\* C1: within one parallelised operation no two workers write, or read to
\* write back, the same output cell.
C1_DisjointCells ==
  call.status \in {"region", "returned"} =>
    \A t1, t2 \in DOMAIN th : t1 # t2 => Touched(t1) \cap Touched(t2) = {}

\* C2: a multiplication that has returned holds, whatever the interleaving of
\* its workers, the cells that the sequential i, k, j accumulation produces.
C2_SameAsSequential ==
  (call.status = "returned" /\ call.op = "mul") => res = SequentialCells(call)

\* The element-wise part of C1 and C2: the workers of operator+ touch
\* disjoint cells and the sum is the sequential one.
AddCellsDisjoint ==
  (call.status \in {"region", "returned"} /\ call.op = "add") =>
    /\ \A t1, t2 \in DOMAIN th : t1 # t2 => Touched(t1) \cap Touched(t2) = {}
    /\ call.status = "returned" => res = SequentialCells(call)

-----------------------------------------------------------------------------
(* Part 5.  A program calling the public interface.

   The program builds matrices with the constructors, keeps one in A, may
   keep a second in B as the argument of a two-matrix operation, calls one
   operation at a time and either keeps the matrix it gets (in A) or drops
   the result.                                                              *)

\* Largest number of rows and of columns of a container handed to the library
MaxDim == 2

\* Member calls in one run
MaxSteps == 2

\* The r x c container holding start, start + 1, ... row by row
Grid(r, c, start) ==
  [i \in 1..r |-> [j \in 1..c |-> FromInt(start + (i - 1) * c + (j - 1))]]

\* r rows of which the last is one element longer than the others
Jagged(r, c, start) ==
  [i \in 1..r |-> [j \in 1..(IF i = r THEN c + 1 ELSE c) |->
                     FromInt(start + (i - 1) * c + (j - 1))]]

Starts == {0, 1}

\* The 2D sequences the program hands to the constructor
Containers ==
  {Grid(r, c, start) : r \in 0..MaxDim, c \in 0..MaxDim, start \in Starts}
  \cup {Jagged(MaxDim, c, 1) : c \in 0..1}

\* The vectors handed to insertRow and insertCol
Vectors == {[j \in 1..n |-> FromInt(7 + j)] : n \in 0..MaxDim}

Scalars == {FromInt(0), FromInt(2), DNeg(FromInt(1))}

Indices == 0..MaxDim

Slices == {<<first, second>> : first \in 0..MaxDim, second \in 0..(MaxDim + 1)}

\* The record of a call on A
CallRec(op, args, other, out) ==
  [op |-> op, args |-> args, this0 |-> A, other0 |-> other, out |-> out]

Init ==
  /\ A = NoMatrix /\ B = NoMatrix /\ R = NoCall /\ steps = 0 /\ caught = {}
  /\ stdShuffle = <<>> /\ heap = <<>>
  /\ call = NoCall /\ res = <<>> /\ th = <<>>

\* A constructor may be called for the first matrix, or for the argument of
\* a coming call
CanConstruct ==
  /\ R = NoCall
  /\ B = NoMatrix
  /\ A # NoMatrix => steps < MaxSteps

\* Matrix m(container)
Construct(container) ==
  /\ CanConstruct
  /\ R' = CallRec("Matrix", <<container>>, NoMatrix, MatrixCtor(container))
  /\ UNCHANGED <<heap, stdShuffle, A, B, steps, call, res, th, caught>>

\* Matrix::identity(dim)
Identity(dim) ==
  /\ CanConstruct
  /\ R' = CallRec("identity", <<dim>>, NoMatrix, identity(dim))
  /\ UNCHANGED <<heap, stdShuffle, A, B, steps, call, res, th, caught>>

\* Matrix::constValMatrix(rows, cols, val)
ConstVal(rows, cols, val) ==
  /\ CanConstruct
  /\ R' = CallRec("constValMatrix", <<rows, cols, val>>, NoMatrix,
                  constValMatrix(rows, cols, val))
  /\ UNCHANGED <<heap, stdShuffle, A, B, steps, call, res, th, caught>>

Constructors == {"Matrix", "identity", "constValMatrix"}

\* The program keeps the returned matrix as A
Keep ==
  /\ R # NoCall
  /\ R.out.tag = "matrix"
  /\ A' = R.out.mat
  /\ B' = NoMatrix
  /\ R' = NoCall
  /\ UNCHANGED <<heap, stdShuffle, steps, call, res, th, caught>>

\* The program keeps a constructed matrix as B, the argument of its next call
KeepArgument ==
  /\ R # NoCall
  /\ R.op \in Constructors
  /\ R.out.tag = "matrix"
  /\ A # NoMatrix
  /\ B' = R.out.mat
  /\ R' = NoCall
  /\ UNCHANGED <<heap, stdShuffle, A, steps, call, res, th, caught>>

\* The program drops the result, or catches the exception: a catch clause
\* selects by the type thrown
Drop ==
  /\ R # NoCall
  /\ R' = NoCall
  /\ B' = NoMatrix
  /\ caught' = IF R.out.tag = "throw"
               THEN caught \cup {[type |-> R.out.type, kind |-> R.out.kind]}
               ELSE caught
  /\ UNCHANGED <<heap, stdShuffle, A, steps, call, res, th>>

\* A member call on A alone can be made
CanCall ==
  /\ R = NoCall
  /\ A # NoMatrix
  /\ B = NoMatrix
  /\ steps < MaxSteps

\* A member call on A with argument B can be made
CanCallWith ==
  /\ R = NoCall
  /\ A # NoMatrix
  /\ B # NoMatrix
  /\ steps < MaxSteps

\* A operator+ B
Add ==
  /\ CanCallWith
  /\ R' = CallRec("operator+", <<>>, B, OpAdd(A, B))
  /\ steps' = steps + 1
  /\ UNCHANGED <<heap, stdShuffle, A, B, call, res, th, caught>>

\* A + scalar
AddScalar(scalar) ==
  /\ CanCall
  /\ R' = CallRec("operator+(double)", <<scalar>>, NoMatrix, OpAddScalar(A, scalar))
  /\ steps' = steps + 1
  /\ UNCHANGED <<heap, stdShuffle, A, B, call, res, th, caught>>

\* A operator- B
Subtract ==
  /\ CanCallWith
  /\ R' = CallRec("operator-", <<>>, B, OpSub(A, B))
  /\ steps' = steps + 1
  /\ UNCHANGED <<heap, stdShuffle, A, B, call, res, th, caught>>

\* A - scalar
SubtractScalar(scalar) ==
  /\ CanCall
  /\ R' = CallRec("operator-(double)", <<scalar>>, NoMatrix, OpSubScalar(A, scalar))
  /\ steps' = steps + 1
  /\ UNCHANGED <<heap, stdShuffle, A, B, call, res, th, caught>>

\* scalar - A
ScalarSubtract(scalar) ==
  /\ CanCall
  /\ R' = CallRec("operator-(double, Matrix)", <<scalar>>, NoMatrix, OpScalarSub(scalar, A))
  /\ steps' = steps + 1
  /\ UNCHANGED <<heap, stdShuffle, A, B, call, res, th, caught>>

\* A operator== B
Equal ==
  /\ CanCallWith
  /\ R' = CallRec("operator==", <<>>, B, RetBool(OpEq(A, B)))
  /\ steps' = steps + 1
  /\ UNCHANGED <<heap, stdShuffle, A, B, call, res, th, caught>>

\* A operator!= B
NotEqual ==
  /\ CanCallWith
  /\ R' = CallRec("operator!=", <<>>, B, RetBool(OpNeq(A, B)))
  /\ steps' = steps + 1
  /\ UNCHANGED <<heap, stdShuffle, A, B, call, res, th, caught>>

\* A operator* B
Multiply ==
  /\ CanCallWith
  /\ R' = CallRec("operator*", <<>>, B, OpMul(A, B))
  /\ steps' = steps + 1
  /\ UNCHANGED <<heap, stdShuffle, A, B, call, res, th, caught>>

\* A * scalar
MultiplyScalar(scalar) ==
  /\ CanCall
  /\ R' = CallRec("operator*(double)", <<scalar>>, NoMatrix, OpMulScalar(A, scalar))
  /\ steps' = steps + 1
  /\ UNCHANGED <<heap, stdShuffle, A, B, call, res, th, caught>>

\* A / scalar
DivideScalar(scalar) ==
  /\ CanCall
  /\ R' = CallRec("operator/", <<scalar>>, NoMatrix, OpDivScalar(A, scalar))
  /\ steps' = steps + 1
  /\ UNCHANGED <<heap, stdShuffle, A, B, call, res, th, caught>>

\* A ^ scalar
Power(scalar) ==
  /\ CanCall
  /\ R' = CallRec("operator^", <<scalar>>, NoMatrix, OpPow(A, scalar))
  /\ A' = PowThis(A, scalar)
  /\ steps' = steps + 1
  /\ UNCHANGED <<heap, stdShuffle, B, call, res, th, caught>>

\* A(row, col), read
At(row, col) ==
  /\ CanCall
  /\ R' = CallRec("operator()", <<row, col>>, NoMatrix, OpAt(A, row, col))
  /\ steps' = steps + 1
  /\ UNCHANGED <<heap, stdShuffle, A, B, call, res, th, caught>>

\* A(row, col) = val
Assign(row, col, val) ==
  /\ CanCall
  /\ R' = CallRec("assign", <<row, col, val>>, NoMatrix, OpAt(A, row, col))
  /\ A' = AssignAt(A, row, col, val)
  /\ steps' = steps + 1
  /\ UNCHANGED <<heap, stdShuffle, B, call, res, th, caught>>

\* A.transpose()
Transpose ==
  /\ CanCall
  /\ R' = CallRec("transpose", <<>>, NoMatrix, transpose(A))
  /\ steps' = steps + 1
  /\ UNCHANGED <<heap, stdShuffle, A, B, call, res, th, caught>>

\* A.inverse()
Inverse ==
  /\ CanCall
  /\ R' = CallRec("inverse", <<>>, NoMatrix, inverse(A))
  /\ A' = InverseThis(A)
  /\ steps' = steps + 1
  /\ UNCHANGED <<heap, stdShuffle, B, call, res, th, caught>>

\* A.determinant()
Determinant ==
  /\ CanCall
  /\ R' = CallRec("determinant", <<>>, NoMatrix, determinant(A))
  /\ steps' = steps + 1
  /\ UNCHANGED <<heap, stdShuffle, A, B, call, res, th, caught>>

\* A.insertRow(row, idx)
InsertRow(row, idx) ==
  /\ CanCall
  /\ R' = CallRec("insertRow", <<row, idx>>, NoMatrix, insertRow(A, row, idx))
  /\ steps' = steps + 1
  /\ UNCHANGED <<heap, stdShuffle, A, B, call, res, th, caught>>

\* A.insertRow(rowVal, idx)
InsertRowVal(rowVal, idx) ==
  /\ CanCall
  /\ R' = CallRec("insertRow(double)", <<rowVal, idx>>, NoMatrix, insertRowVal(A, rowVal, idx))
  /\ steps' = steps + 1
  /\ UNCHANGED <<heap, stdShuffle, A, B, call, res, th, caught>>

\* A.insertCol(col, idx)
InsertCol(col, idx) ==
  /\ CanCall
  /\ R' = CallRec("insertCol", <<col, idx>>, NoMatrix, insertCol(A, col, idx))
  /\ steps' = steps + 1
  /\ UNCHANGED <<heap, stdShuffle, A, B, call, res, th, caught>>

\* A.insertCol(colVal, idx)
InsertColVal(colVal, idx) ==
  /\ CanCall
  /\ R' = CallRec("insertCol(double)", <<colVal, idx>>, NoMatrix, insertColVal(A, colVal, idx))
  /\ steps' = steps + 1
  /\ UNCHANGED <<heap, stdShuffle, A, B, call, res, th, caught>>

\* A hStack B
HStack ==
  /\ CanCallWith
  /\ R' = CallRec("hStack", <<>>, B, hStack(A, B))
  /\ steps' = steps + 1
  /\ UNCHANGED <<heap, stdShuffle, A, B, call, res, th, caught>>

\* A vStack B
VStack ==
  /\ CanCallWith
  /\ R' = CallRec("vStack", <<>>, B, vStack(A, B))
  /\ steps' = steps + 1
  /\ UNCHANGED <<heap, stdShuffle, A, B, call, res, th, caught>>

\* A.shuffleRows(), for the order the generator produces; a call of
\* A.shuffleRows(random_state) leaves one of these orders too
ShuffleRows(order) ==
  /\ CanCall
  /\ R' = CallRec("shuffleRows", <<>>, NoMatrix, [tag |-> "void"])
  /\ A' = shuffleRows(A, order)
  /\ steps' = steps + 1
  /\ UNCHANGED <<heap, stdShuffle, B, call, res, th, caught>>

\* A.extractMatrix(rowSlice, colSlice)
ExtractMatrix(rowSlice, colSlice) ==
  /\ CanCall
  /\ R' = CallRec("extractMatrix", <<rowSlice, colSlice>>, NoMatrix,
                  extractMatrix(A, rowSlice, colSlice))
  /\ steps' = steps + 1
  /\ UNCHANGED <<heap, stdShuffle, A, B, call, res, th, caught>>

\* A.extractRow(rowIdx)
ExtractRow(rowIdx) ==
  /\ CanCall
  /\ R' = CallRec("extractRow", <<rowIdx>>, NoMatrix, extractRow(A, rowIdx))
  /\ steps' = steps + 1
  /\ UNCHANGED <<heap, stdShuffle, A, B, call, res, th, caught>>

\* A.extractCol(colIdx)
ExtractCol(colIdx) ==
  /\ CanCall
  /\ R' = CallRec("extractCol", <<colIdx>>, NoMatrix, extractCol(A, colIdx))
  /\ steps' = steps + 1
  /\ UNCHANGED <<heap, stdShuffle, A, B, call, res, th, caught>>

\* A.sum()
Sum ==
  /\ CanCall
  /\ R' = CallRec("sum", <<>>, NoMatrix, sum(A))
  /\ steps' = steps + 1
  /\ UNCHANGED <<heap, stdShuffle, A, B, call, res, th, caught>>

\* A.sum(power)
SumPower(power) ==
  /\ CanCall
  /\ R' = CallRec("sum(double)", <<power>>, NoMatrix, sumPower(A, power))
  /\ steps' = steps + 1
  /\ UNCHANGED <<heap, stdShuffle, A, B, call, res, th, caught>>

\* A.mean()
Mean ==
  /\ CanCall
  /\ R' = CallRec("mean", <<>>, NoMatrix, mean(A))
  /\ steps' = steps + 1
  /\ UNCHANGED <<heap, stdShuffle, A, B, call, res, th, caught>>

\* A.trace()
Trace ==
  /\ CanCall
  /\ R' = CallRec("trace", <<>>, NoMatrix, trace(A))
  /\ steps' = steps + 1
  /\ UNCHANGED <<heap, stdShuffle, A, B, call, res, th, caught>>

\* A.toVector()
ToVector ==
  /\ CanCall
  /\ R' = CallRec("toVector", <<>>, NoMatrix, [tag |-> "vector", val |-> toVector(A)])
  /\ steps' = steps + 1
  /\ UNCHANGED <<heap, stdShuffle, A, B, call, res, th, caught>>

Next ==
  \/ \E container \in Containers : Construct(container)
  \/ \E dim \in 0..MaxDim : Identity(dim)
  \/ \E rows \in 0..MaxDim, cols \in 0..MaxDim : ConstVal(rows, cols, FromInt(5))
  \/ Keep
  \/ KeepArgument
  \/ Drop
  \/ Add
  \/ \E scalar \in Scalars : AddScalar(scalar)
  \/ Subtract
  \/ \E scalar \in Scalars : SubtractScalar(scalar)
  \/ \E scalar \in Scalars : ScalarSubtract(scalar)
  \/ Equal
  \/ NotEqual
  \/ Multiply
  \/ \E scalar \in Scalars : MultiplyScalar(scalar)
  \/ \E scalar \in Scalars : DivideScalar(scalar)
  \/ \E scalar \in Scalars : Power(scalar)
  \/ \E row \in Indices, col \in Indices : At(row, col)
  \/ \E row \in Indices, col \in Indices : Assign(row, col, FromInt(9))
  \/ Transpose
  \/ Inverse
  \/ Determinant
  \/ \E row \in Vectors, idx \in 0..(MaxDim + 1) : InsertRow(row, idx)
  \/ \E idx \in 0..(MaxDim + 1) : InsertRowVal(FromInt(6), idx)
  \/ \E col \in Vectors, idx \in 0..(MaxDim + 1) : InsertCol(col, idx)
  \/ \E idx \in 0..(MaxDim + 1) : InsertColVal(FromInt(6), idx)
  \/ HStack
  \/ VStack
  \/ A # NoMatrix /\ \E order \in Orders(A.nrows) : ShuffleRows(order)
  \/ \E rowSlice \in Slices, colSlice \in Slices : ExtractMatrix(rowSlice, colSlice)
  \/ \E rowIdx \in Indices : ExtractRow(rowIdx)
  \/ \E colIdx \in Indices : ExtractCol(colIdx)
  \/ Sum
  \/ \E power \in Scalars : SumPower(power)
  \/ Mean
  \/ Trace
  \/ ToVector

Spec == Init /\ [][Next]_vars

\* The Matrix objects the program can look at: the two it holds and the one
\* the last call returned
Held ==
  {m \in {A, B} : m # NoMatrix}
  \cup (IF R # NoCall /\ R.out.tag = "matrix" THEN {R.out.mat} ELSE {})

\* C3: every matrix obtained through the public interface has rows > 0 and
\* cols > 0.
C3_PositiveShape == \A m \in Held : m.nrows > 0 /\ m.ncols > 0

\* C4: the counters of every matrix agree with its storage: the container
\* holds nrows rows and each of them holds ncols elements.
C4_ShapeAgreesWithStorage ==
  \A m \in Held :
    /\ Len(m.container) = m.nrows
    /\ \A i \in 1..Len(m.container) : Len(m.container[i]) = m.ncols

\* insertCol has returned a matrix one column wider than a receiver that was
\* itself the result of an earlier call
C4_InsertColGrew ==
  /\ R # NoCall /\ R.op = "insertCol" /\ steps = MaxSteps
  /\ R.out.tag = "matrix"
  /\ Len(R.out.mat.container[1]) = R.this0.ncols + 1

\* C5: no two different error kinds reach the caller as the same catchable
\* type.
C5_KindsDistinguishable ==
  \A x, y \in caught : x.type = y.type => x.kind = y.kind

\* C6: a call other than the assignment through operator() and shuffleRows
\* leaves its receiver and its argument as they were, whether it returns or
\* throws.
C6_OperandsUnchanged ==
  (R # NoCall /\ R.op \notin {"assign", "shuffleRows"}) =>
    A = R.this0 /\ B = R.other0

\* operator^ has thrown at a zero cell after raising the cells before it
C6_PowerFailedPartWay ==
  /\ R # NoCall /\ R.op = "operator^"
  /\ R.out.tag = "throw"
  /\ FirstZero(R.this0.container) > 1

\* The sum over k, in the order of k, of this[i][k] * other[k][j]
CellSum(this, other, i, j) ==
  Accumulate([k \in 1..this.ncols |-> DMul(this.container[i][k], other.container[k][j])],
             this.ncols, DZero)

\* C7: for this of shape m x n and other of shape n x p, operator* returns
\* an m x p matrix whose cell (i, j) is the sum over k of
\* this[i][k] * other[k][j].
C7_MultiplyCells ==
  (R # NoCall /\ R.op = "operator*" /\ R.this0.ncols = R.other0.nrows) =>
    /\ R.out.tag = "matrix"
    /\ R.out.mat.nrows = R.this0.nrows
    /\ R.out.mat.ncols = R.other0.ncols
    /\ \A i \in 1..R.this0.nrows : \A j \in 1..R.other0.ncols :
         R.out.mat.container[i][j] = CellSum(R.this0, R.other0, i, j)

\* The part of C7 that the code keeps: the same for every other with at
\* least one column.
MultiplyCellsNonEmpty == (R # NoCall /\ R.other0 # NoMatrix /\ R.other0.ncols = 0) \/ C7_MultiplyCells

\* C8: operator+ and operator- throw DimensionMismatch exactly when the
\* shapes differ, operator* exactly when this.ncols # other.nrows, and they
\* return a matrix in every other case.
C8_MismatchExactly ==
  /\ (R # NoCall /\ R.op \in {"operator+", "operator-"}) =>
       IF SameShape(R.this0, R.other0) THEN R.out.tag = "matrix"
       ELSE R.out = Throw("invalid_argument", "DimensionMismatch")
  /\ (R # NoCall /\ R.op = "operator*") =>
       IF R.this0.ncols = R.other0.nrows THEN R.out.tag = "matrix"
       ELSE R.out = Throw("invalid_argument", "DimensionMismatch")

\* The part of C8 that the code keeps: the same for every other with at
\* least one column.
MismatchExactlyNonEmpty == (R # NoCall /\ R.other0 # NoMatrix /\ R.other0.ncols = 0) \/ C8_MismatchExactly

-----------------------------------------------------------------------------
(* Part 6.  A program inverting a matrix and multiplying back.

   As the test "3x3 Matrix Inversion and Identity Check" does, the program
   holds a matrix A, calls A.inverse(), multiplies A by the inverse and
   compares the product with the identity.  B holds the inverse once it has
   been returned.                                                           *)

\* Entries of the small matrices
SmallEntries == {FromInt(n) : n \in 0..3}

\* 2^45: the factor of the large matrices
Large == 45

\* The matrices inverted: all 2 x 2 and 1 x 1 matrices of small entries; the
\* singular [[18, 150], [15, 125]], as it is and times 2^45; a 1 x 1 matrix
\* below EPS; a matrix whose rows differ in magnitude by 2^20; one that is
\* not square.
InvOperands ==
  {Mat(<<<<a, b>>, <<c, d>>>>, 2, 2) : a, b, c, d \in SmallEntries}
  \cup {Mat(<<<<a>>>>, 1, 1) : a \in SmallEntries \cup {Scale(DOne, -50)}}
  \cup {Mat(<<<<Scale(FromInt(18), k), Scale(FromInt(150), k)>>,
               <<Scale(FromInt(15), k), Scale(FromInt(125), k)>>>>, 2, 2) :
          k \in {0, Large}}
  \cup {Mat(<<<<Scale(FromInt(3), 20), DOne>>, <<DOne, Scale(DOne, -20)>>>>, 2, 2),
        Mat(<<<<DOne, FromInt(2)>>>>, 1, 2)}

InvInit ==
  /\ A \in InvOperands
  /\ B = NoMatrix /\ R = NoCall /\ steps = 0 /\ caught = {}
  /\ stdShuffle = <<>> /\ heap = <<>>
  /\ call = NoCall /\ res = <<>> /\ th = <<>>

\* Matrix prod = m * inv
MultiplyByInverse ==
  /\ R # NoCall /\ R.op = "inverse"
  /\ R.out.tag = "matrix"
  /\ B' = R.out.mat
  /\ R' = CallRec("operator*", <<>>, R.out.mat, OpMul(A, R.out.mat))
  /\ steps' = steps + 1
  /\ UNCHANGED <<heap, stdShuffle, A, caught, call, res, th>>

\* prod == id
CompareWithIdentity ==
  /\ R # NoCall /\ R.op = "operator*"
  /\ R.out.tag = "matrix"
  /\ R' = [op |-> "operator==", args |-> <<>>, this0 |-> R.out.mat,
           other0 |-> identity(A.nrows).mat,
           out |-> RetBool(OpEq(R.out.mat, identity(A.nrows).mat))]
  /\ steps' = steps + 1
  /\ UNCHANGED <<heap, stdShuffle, A, B, caught, call, res, th>>

InvNext ==
  \/ Inverse
  \/ MultiplyByInverse
  \/ CompareWithIdentity

SpecInv == InvInit /\ [][InvNext]_vars

\* x * y without rounding: odd times odd is odd, so the record is in
\* canonical form and equal values are equal records
ExactProduct(x, y) ==
  IF IsZero(x) \/ IsZero(y) THEN DZero
  ELSE [s |-> (x.s + y.s) % 2, m |-> BMul(x.m, y.m), e |-> x.e + y.e]

\* Whether the determinant of a 1 x 1 or 2 x 2 matrix is zero, in exact
\* arithmetic on the values the matrix stores
DeterminantIsZero(this) ==
  IF this.nrows = 1 THEN IsZero(this.container[1][1])
  ELSE ExactProduct(this.container[1][1], this.container[2][2])
         = ExactProduct(this.container[1][2], this.container[2][1])

Invertible(this) == this.nrows = this.ncols /\ ~DeterminantIsZero(this)

\* Whether operator* computes this * other without rounding: every product
\* and every addition of the accumulation is exact
ProductExact(this, other) ==
  \A i \in 1..this.nrows : \A j \in 1..other.ncols : \A k \in 1..this.ncols :
    /\ MulExact(this.container[i][k], other.container[k][j])
    /\ AddExact(Accumulate([x \in 1..this.ncols |->
                               DMul(this.container[i][x], other.container[x][j])],
                           k - 1, DZero),
                DMul(this.container[i][k], other.container[k][j]))

C10_SingularThrows ==
  (R # NoCall /\ R.op = "inverse" /\ R.this0.nrows = R.this0.ncols
     /\ DeterminantIsZero(R.this0)) =>
    R.out = Throw("runtime_error", "SingularMatrix")

\* The part of C10 that the code keeps: the same for the matrices of small
\* entries.
SingularThrowsSmall ==
  (R # NoCall /\ R.op = "inverse"
     /\ \E i \in 1..R.this0.nrows : \E j \in 1..R.this0.ncols :
          R.this0.container[i][j] \notin SmallEntries)
  \/ C10_SingularThrows

-----------------------------------------------------------------------------
(* Part 7.  A program taking determinants.

   As the tests "Matrix Determinant" and "Zero Matrix Determinant" do, the
   program holds a matrix A and calls A.determinant(); it drops the value and
   may call again.                                                          *)

\* 2^1023, a double in the highest binade
Huge == Scale(DOne, MaxExp - 1)

\* The rows of the 3 x 3 matrices: a zero row, rows of small entries, two
\* rows with cells in the highest binade
DetRows ==
  {<<FromInt(a), FromInt(b), FromInt(c)>> :
     <<a, b, c>> \in {<<0, 0, 0>>, <<1, 2, 2>>, <<2, 1, 0>>, <<0, 1, 1>>, <<2, 0, 1>>}}
  \cup {<<DOne, Huge, Huge>>, <<DOne, DNeg(Huge), DNeg(Huge)>>}

\* The matrices whose determinant is taken: all 2 x 2 and 1 x 1 matrices of
\* small entries, a 1 x 1 matrix below EPS, the 3 x 3 matrices of the rows
\* above, one that is not square.
DetOperands ==
  {Mat(<<<<a, b>>, <<c, d>>>>, 2, 2) : a, b, c, d \in SmallEntries}
  \cup {Mat(<<<<a>>>>, 1, 1) : a \in SmallEntries \cup {Scale(DOne, -50)}}
  \cup {Mat(<<r1, r2, r3>>, 3, 3) : r1, r2, r3 \in DetRows}
  \cup {Mat(<<<<DOne, FromInt(2)>>>>, 1, 2)}

DetInit ==
  /\ A \in DetOperands
  /\ B = NoMatrix /\ R = NoCall /\ steps = 0 /\ caught = {}
  /\ stdShuffle = <<>> /\ heap = <<>>
  /\ call = NoCall /\ res = <<>> /\ th = <<>>

DetNext ==
  \/ Determinant
  \/ Drop

SpecDet == DetInit /\ [][DetNext]_vars

\* C11, as stated: for every square matrix, determinant() returns the value
\* of the cofactor expansion along the first row.
C11_DeterminantIsCofactor ==
  (R # NoCall /\ R.op = "determinant" /\ R.this0.nrows = R.this0.ncols) =>
    R.out = RetDouble(_det(R.this0.container))

\* C11, amended: for every square matrix on which neither the elimination
\* nor the cofactor expansion rounds, and on which the elimination meets no
\* pivot column whose largest cell is nonzero and below EPS, determinant()
\* returns the value of the cofactor expansion along the first row.
C11_ExactDeterminantIsCofactor ==
  (R # NoCall /\ R.op = "determinant" /\ R.this0.nrows = R.this0.ncols
     /\ DeterminantExact(R.this0) /\ CofactorExact(R.this0.container)) =>
    R.out = RetDouble(_det(R.this0.container))

\* determinant() has returned the nonzero value of a 3 x 3 matrix after an
\* odd number of swaps, every operation exact
C11_SwappedExactly ==
  /\ R # NoCall /\ R.op = "determinant"
  /\ R.this0.nrows = 3 /\ R.out.tag = "double" /\ ~IsZero(R.out.val)
  /\ DeterminantLoop(R.this0).numRowSwaps = 1
  /\ DeterminantExact(R.this0) /\ CofactorExact(R.this0.container)

\* Whether some row of the container holds zeros only
HasZeroRow(container) ==
  \E i \in 1..Len(container) : \A j \in 1..Len(container[i]) : IsZero(container[i][j])

\* Whether two rows of the container are the same
HasEqualRows(container) ==
  \E i, j \in 1..Len(container) : i # j /\ container[i] = container[j]

\* C12: determinant() of a square matrix with an all-zero row or with two
\* identical rows returns exactly 0.
C12_DegenerateIsZero ==
  (R # NoCall /\ R.op = "determinant" /\ R.this0.nrows = R.this0.ncols
     /\ (HasZeroRow(R.this0.container) \/ HasEqualRows(R.this0.container))) =>
    R.out = RetDouble(DZero)

\* The part of C12 that the code keeps: the same for the matrices whose
\* elimination stays inside the range of a double.
DegenerateIsZeroInRange ==
  (R # NoCall /\ R.op = "determinant"
     /\ \E i \in 1..R.this0.nrows : \E j \in 1..R.this0.ncols :
          ~Finite(DeterminantLoop(R.this0).LU[i][j]))
  \/ C12_DegenerateIsZero

-----------------------------------------------------------------------------
(* Part 8.  Further properties of the program of Part 5.                    *)

\* C13: determinant(), inverse() and trace() throw NotSquare exactly when
\* rows # cols; the throw is the whole effect of the call: no value is
\* returned and the receiver is as it was.
C13_NotSquareExactly ==
  (R # NoCall /\ R.op \in {"determinant", "inverse", "trace"}) =>
    /\ R.out = Throw("invalid_argument", "NotSquare") <=> R.this0.nrows # R.this0.ncols
    /\ R.this0.nrows # R.this0.ncols => A = R.this0

\* trace has thrown on a matrix with more columns than rows that an earlier
\* call returned
C13_TraceRefused ==
  /\ R # NoCall /\ R.op = "trace" /\ steps = MaxSteps
  /\ R.this0.nrows < R.this0.ncols
  /\ R.out.tag = "throw"

\* Whether <<start, end>> is a half-open range inside a dimension
ValidSlice(slice, dim) == slice[1] < slice[2] /\ slice[2] <= dim

C16_WrappersAsExtractMatrix ==
  /\ (R # NoCall /\ R.op = "extractRow") =>
       R.out = extractMatrix(R.this0, <<R.args[1], R.args[1] + 1>>, <<0, R.this0.ncols>>)
  /\ (R # NoCall /\ R.op = "extractCol") =>
       R.out = extractMatrix(R.this0, <<0, R.this0.nrows>>, <<R.args[1], R.args[1] + 1>>)

\* The part of C16 that the code keeps: the same whenever the wrapper
\* returns a matrix.
WrappersAsExtractMatrixInBounds ==
  (R # NoCall /\ R.op \in {"extractRow", "extractCol"} /\ R.out.tag = "throw")
  \/ C16_WrappersAsExtractMatrix

\* C17: insertRow throws DimensionMismatch when the length of the row
\* differs from cols, and otherwise IndexOutOfRange when index > rows; with
\* index <= rows, index = rows included, it returns.  insertCol does the
\* same with the length of the column against rows and the index against
\* cols.  The overloads taking a fill value have the index test only.
C17_InsertRefusals ==
  /\ (R # NoCall /\ R.op = "insertRow") =>
       IF Len(R.args[1]) # R.this0.ncols
       THEN R.out = Throw("invalid_argument", "DimensionMismatch")
       ELSE IF R.args[2] > R.this0.nrows
       THEN R.out = Throw("invalid_argument", "IndexOutOfRange")
       ELSE R.out.tag = "matrix"
  /\ (R # NoCall /\ R.op = "insertCol") =>
       IF Len(R.args[1]) # R.this0.nrows
       THEN R.out = Throw("invalid_argument", "DimensionMismatch")
       ELSE IF R.args[2] > R.this0.ncols
       THEN R.out = Throw("invalid_argument", "IndexOutOfRange")
       ELSE R.out.tag = "matrix"
  /\ (R # NoCall /\ R.op = "insertRow(double)") =>
       IF R.args[2] > R.this0.nrows
       THEN R.out = Throw("invalid_argument", "IndexOutOfRange")
       ELSE R.out.tag = "matrix"
  /\ (R # NoCall /\ R.op = "insertCol(double)") =>
       IF R.args[2] > R.this0.ncols
       THEN R.out = Throw("invalid_argument", "IndexOutOfRange")
       ELSE R.out.tag = "matrix"

\* insertRow has appended a row to a matrix of two rows
C17_RowAppended ==
  /\ R # NoCall /\ R.op = "insertRow"
  /\ R.this0.nrows = 2 /\ R.args[2] = 2
  /\ R.out.tag = "matrix"

\* The r x c container whose row idx (counted from 0) is row and whose other
\* rows are those of container in their order
WithRow(container, idx, row) ==
  [i \in 1..(Len(container) + 1) |->
     IF i <= idx THEN container[i]
     ELSE IF i = idx + 1 THEN row
     ELSE container[i - 1]]

\* The same for a column: col[i] goes to position idx of row i
WithCol(container, idx, col) ==
  [i \in 1..Len(container) |-> WithRow(container[i], idx, col[i])]

\* C18: for index <= rows and a row of length cols, or a fill value,
\* insertRow returns a (rows + 1) x cols matrix whose row index is the row
\* supplied, or cols copies of the fill value, and whose other rows are the
\* receiver's in their order; insertCol does the same column-wise and
\* returns a rows x (cols + 1) matrix.
C18_InsertPlaces ==
  /\ (R # NoCall /\ R.op = "insertRow"
        /\ Len(R.args[1]) = R.this0.ncols /\ R.args[2] <= R.this0.nrows) =>
       R.out = RetMatrix(Mat(WithRow(R.this0.container, R.args[2], R.args[1]),
                             R.this0.nrows + 1, R.this0.ncols))
  /\ (R # NoCall /\ R.op = "insertRow(double)" /\ R.args[2] <= R.this0.nrows) =>
       R.out = RetMatrix(Mat(WithRow(R.this0.container, R.args[2],
                                     [j \in 1..R.this0.ncols |-> R.args[1]]),
                             R.this0.nrows + 1, R.this0.ncols))
  /\ (R # NoCall /\ R.op = "insertCol"
        /\ Len(R.args[1]) = R.this0.nrows /\ R.args[2] <= R.this0.ncols) =>
       R.out = RetMatrix(Mat(WithCol(R.this0.container, R.args[2], R.args[1]),
                             R.this0.nrows, R.this0.ncols + 1))
  /\ (R # NoCall /\ R.op = "insertCol(double)" /\ R.args[2] <= R.this0.ncols) =>
       R.out = RetMatrix(Mat(WithCol(R.this0.container, R.args[2],
                                     [i \in 1..R.this0.nrows |-> R.args[1]]),
                             R.this0.nrows, R.this0.ncols + 1))

\* insertRow with a fill value has put a row between the two rows of a
\* 2 x 2 matrix
C18_FilledBetween ==
  /\ R # NoCall /\ R.op = "insertRow(double)"
  /\ R.this0.nrows = 2 /\ R.this0.ncols = 2 /\ R.args[2] = 1
  /\ R.out.tag = "matrix"

\* C19: hStack throws DimensionMismatch exactly when the row counts differ
\* and otherwise returns the rows x (this.cols + other.cols) matrix whose
\* row i is the receiver's row i followed by other's row i; vStack throws
\* DimensionMismatch exactly when the column counts differ and otherwise
\* returns the (this.rows + other.rows) x cols matrix of the receiver's rows
\* followed by other's rows.
C19_StackPlaces ==
  /\ (R # NoCall /\ R.op = "hStack") =>
       IF R.this0.nrows # R.other0.nrows
       THEN R.out = Throw("invalid_argument", "DimensionMismatch")
       ELSE R.out = RetMatrix(Mat([i \in 1..R.this0.nrows |->
                                     R.this0.container[i] \o R.other0.container[i]],
                                  R.this0.nrows, R.this0.ncols + R.other0.ncols))
  /\ (R # NoCall /\ R.op = "vStack") =>
       IF R.this0.ncols # R.other0.ncols
       THEN R.out = Throw("invalid_argument", "DimensionMismatch")
       ELSE R.out = RetMatrix(Mat([i \in 1..(R.this0.nrows + R.other0.nrows) |->
                                     IF i <= R.this0.nrows THEN R.this0.container[i]
                                     ELSE R.other0.container[i - R.this0.nrows]],
                                  R.this0.nrows + R.other0.nrows, R.this0.ncols))

\* vStack has put a matrix of one row under a different matrix of two rows
C19_StackedUnder ==
  /\ R # NoCall /\ R.op = "vStack"
  /\ R.this0.nrows = 2 /\ R.other0.nrows = 1 /\ R.this0.ncols = 2
  /\ R.other0.container[1] # R.this0.container[1]
  /\ R.out.tag = "matrix"

-----------------------------------------------------------------------------
(* Part 9.  A program shuffling two copies of a matrix.

   As the test "Reproducibility with fixed seed" does, the program builds
   m1 and m2 from the same data (A and B here), calls m1.shuffleRows(seed)
   and m2.shuffleRows(seed) with one seed and compares m1 with m2.  What
   std::shuffle does with a seeded generator is fixed by the build and not
   by the C++ standard: stdShuffle is any one such behaviour.                *)

\* The seeds the programs hand to shuffleRows(size_t)
Seeds == {12345, 54321}

\* gen for a mistaken version whose generator is a static object: the first
\* call seeds it and a later call finds it in another state, whose order is
\* taken here from the entry of the other seed
genStatic(random_state, n) ==
  stdShuffle[IF steps = 0 THEN random_state ELSE CHOOSE s \in Seeds : s # random_state][n]

\* std::mt19937 gen(random_state) handed to std::shuffle over n rows: the
\* order the rows are left in
gen(random_state, n) == stdShuffle[random_state][n]

\* Matrix::shuffleRows(size_t): *this after the call
shuffleRowsSeeded(this, random_state) ==
  shuffleRows(this, gen(random_state, this.nrows))

\* Most rows of a matrix that is shuffled
MaxShuffled == 3

\* The matrices built twice: r rows of distinct cells, and three rows of
\* which two are the same
ShuffleOperands ==
  {MatrixCtor(Grid(r, 2, 1)).mat : r \in 2..MaxShuffled}
  \cup {Mat(<<<<DOne>>, <<DOne>>, <<FromInt(2)>>>>, 3, 1)}

\* The behaviours of std::shuffle: an order of n rows for every seed and n
ShuffleBehaviours ==
  [Seeds -> {f \in [2..MaxShuffled -> UNION {Orders(n) : n \in 2..MaxShuffled}] :
               \A n \in 2..MaxShuffled : f[n] \in Orders(n)}]

ShuffleInit ==
  /\ A \in ShuffleOperands
  /\ B = A
  /\ R = NoCall /\ steps = 0 /\ caught = {}
  /\ call = NoCall /\ res = <<>> /\ th = <<>>
  /\ stdShuffle \in ShuffleBehaviours /\ heap = <<>>

\* m1.shuffleRows(random_state)
ShuffleFirst(random_state) ==
  /\ R = NoCall /\ steps = 0
  /\ A' = shuffleRowsSeeded(A, random_state)
  /\ R' = CallRec("shuffleRows(size_t)", <<random_state>>, NoMatrix, [tag |-> "void"])
  /\ steps' = steps + 1
  /\ UNCHANGED <<heap, stdShuffle, B, call, res, th, caught>>

\* m2.shuffleRows(random_state), with the seed of the first call
ShuffleSecond ==
  /\ R # NoCall /\ R.op = "shuffleRows(size_t)" /\ steps = 1
  /\ B' = shuffleRowsSeeded(B, R.args[1])
  /\ R' = [op |-> "shuffleRows(size_t)", args |-> R.args, this0 |-> B,
           other0 |-> NoMatrix, out |-> [tag |-> "void"]]
  /\ steps' = steps + 1
  /\ UNCHANGED <<heap, stdShuffle, A, call, res, th, caught>>

\* m1 == m2
CompareShuffled ==
  /\ R # NoCall /\ R.op = "shuffleRows(size_t)" /\ steps = 2
  /\ R' = [op |-> "operator==", args |-> <<>>, this0 |-> A, other0 |-> B,
           out |-> RetBool(OpEq(A, B))]
  /\ steps' = steps + 1
  /\ UNCHANGED <<heap, stdShuffle, A, B, call, res, th, caught>>

ShuffleNext ==
  \/ \E random_state \in Seeds : ShuffleFirst(random_state)
  \/ ShuffleSecond
  \/ CompareShuffled

SpecShuffle == ShuffleInit /\ [][ShuffleNext]_vars

-----------------------------------------------------------------------------
(* Part 10.  Properties of the program of Part 5: shuffling, construction,
   the scalar operations, the vector reductions and transpose.              *)

\* The number of rows of the container that hold the elements of row
RowCount(container, row) ==
  Cardinality({i \in 1..Len(container) : container[i] = row})

\* C21: shuffleRows leaves the shape as it was and the rows a permutation of
\* the rows before: every row occurs as often after the call as before it,
\* with its elements untouched.
C21_ShufflePreservesRows ==
  (R # NoCall /\ R.op = "shuffleRows") =>
    /\ A.nrows = R.this0.nrows
    /\ A.ncols = R.this0.ncols
    /\ Len(A.container) = Len(R.this0.container)
    /\ \A i \in 1..Len(R.this0.container) :
         RowCount(A.container, R.this0.container[i])
           = RowCount(R.this0.container, R.this0.container[i])

\* A second shuffleRows in a row has moved the rows of a matrix of two
\* different rows
C21_ShuffledTwice ==
  /\ R # NoCall /\ R.op = "shuffleRows" /\ steps = MaxSteps
  /\ R.this0.nrows = 2
  /\ A.container = <<R.this0.container[2], R.this0.container[1]>>
  /\ A # R.this0

\* Some row of the container is not as long as the first
Ragged(container) ==
  \E i \in 1..Len(container) : Len(container[i]) # Len(container[1])

\* C23: the constructor throws InvalidShape for an empty sequence of rows
\* and for rows of different lengths, identity(0) and constValMatrix with
\* rows = 0 or cols = 0 throw InvalidShape, and no matrix comes of these
\* calls; identity(n) for n > 0 is the n x n matrix with 1 on the diagonal
\* and 0 elsewhere.
C23_ConstructionRefusals ==
  /\ (R # NoCall /\ R.op = "Matrix" /\ (R.args[1] = <<>> \/ Ragged(R.args[1]))) =>
       R.out = Throw("invalid_argument", "InvalidShape")
  /\ (R # NoCall /\ R.op = "identity") =>
       LET n == R.args[1]
       IN IF n = 0 THEN R.out = Throw("invalid_argument", "InvalidShape")
          ELSE /\ R.out.tag = "matrix"
               /\ R.out.mat.nrows = n /\ R.out.mat.ncols = n
               /\ Len(R.out.mat.container) = n
               /\ \A i \in 1..n :
                    /\ Len(R.out.mat.container[i]) = n
                    /\ \A j \in 1..n :
                         R.out.mat.container[i][j] = IF i = j THEN FromInt(1) ELSE FromInt(0)
  /\ (R # NoCall /\ R.op = "constValMatrix" /\ (R.args[1] = 0 \/ R.args[2] = 0)) =>
       R.out = Throw("invalid_argument", "InvalidShape")
  /\ (R # NoCall /\ R.op \in Constructors /\ R.out.tag = "throw") =>
       A = R.this0 /\ B = R.other0

\* The constructor has refused rows of different lengths while the program
\* holds a matrix
C23_RaggedRefused ==
  /\ R # NoCall /\ R.op = "Matrix" /\ R.args[1] # <<>> /\ Ragged(R.args[1])
  /\ R.out.tag = "throw"
  /\ A # NoMatrix

\* Some cell of the container holds zero
HasZero(container) ==
  \E i \in 1..Len(container) : \E j \in 1..Len(container[i]) : IsZero(container[i][j])

AllElements(this) ==
  [p \in 1..(this.nrows * this.ncols) |->
     this.container[((p - 1) \div this.ncols) + 1][((p - 1) % this.ncols) + 1]]

\* C25: sum and mean throw NotVector exactly when nrows # 1 and ncols # 1;
\* otherwise sum is the sum of all the elements and mean is that sum divided
\* by the number of elements: ncols for a row vector, nrows for a column
\* vector.
C25_SumAndMean ==
  (R # NoCall /\ R.op \in {"sum", "mean"}) =>
    IF R.this0.nrows # 1 /\ R.this0.ncols # 1
    THEN R.out = Throw("invalid_argument", "NotVector")
    ELSE LET total == Accumulate(AllElements(R.this0),
                                 R.this0.nrows * R.this0.ncols, FromInt(0))
             count == IF R.this0.nrows = 1 THEN R.this0.ncols ELSE R.this0.nrows
         IN /\ R.out.tag = "double"
            /\ R.op = "sum" => R.out.val = total
            /\ R.op = "mean" => R.out.val = DDiv(total, FromInt(count))

\* mean has returned one half for a row vector of two elements
C25_MeanOfRow ==
  /\ R # NoCall /\ R.op = "mean"
  /\ R.this0.nrows = 1 /\ R.this0.ncols = 2
  /\ R.out.tag = "double"
  /\ R.out.val = Scale(FromInt(1), -1)

\* C27: transpose returns a new ncols x nrows matrix whose cell (j, i) is
\* cell (i, j) of the receiver, leaves the receiver as it was, and the
\* transpose of the result equals the receiver.
C27_TransposeCells ==
  (R # NoCall /\ R.op = "transpose") =>
    /\ R.out.tag = "matrix"
    /\ R.out.mat.nrows = R.this0.ncols
    /\ R.out.mat.ncols = R.this0.nrows
    /\ \A i \in 1..R.this0.nrows : \A j \in 1..R.this0.ncols :
         R.out.mat.container[j][i] = R.this0.container[i][j]
    /\ A = R.this0
    /\ transpose(R.out.mat).tag = "matrix"
    /\ OpEq(transpose(R.out.mat).mat, R.this0)

\* The part of C27 that the code keeps: the same for every receiver with at
\* least one column.
TransposeCellsNonEmpty ==
  (R # NoCall /\ R.op = "transpose" /\ R.this0.ncols = 0) \/ C27_TransposeCells

-----------------------------------------------------------------------------
(* Part 11.  A program comparing two matrices.

   As the tests "Equality Tolerance Test" and "Matrix Inequality Operator"
   do, the program holds two matrices A and B and calls A == B or A != B.
   The elements are at the tolerance's edge, and among them are the values
   that arithmetic on double can leave in a matrix: infinity and NaN.       *)

EqEntries ==
  {FromInt(0), EPS, Scale(EPS, 1), FromInt(1), Inf(0), NaN}

EqOperands ==
  {Mat(<<<<a>>>>, 1, 1) : a \in EqEntries}
  \cup {Mat(<<<<a, b>>>>, 1, 2) : a, b \in EqEntries}
  \cup {Mat(<<<<a>>, <<b>>>>, 2, 1) : a, b \in {FromInt(0), EPS}}

EqInit ==
  /\ A \in EqOperands
  /\ B \in EqOperands
  /\ R = NoCall /\ steps = 0 /\ caught = {}
  /\ stdShuffle = <<>> /\ heap = <<>>
  /\ call = NoCall /\ res = <<>> /\ th = <<>>

EqNext ==
  \/ Equal
  \/ NotEqual
  \/ Drop

SpecEq == EqInit /\ [][EqNext]_vars

\* x and y differ by no more than the tolerance
WithinTolerance(x, y) == DLe(DAbs(DSub(x, y)), EPS)

\* The two matrices have the same shape and every pair of corresponding
\* elements is within the tolerance
EqualsAsStated(this, other) ==
  /\ SameShape(this, other)
  /\ \A i \in 1..this.nrows : \A j \in 1..this.ncols :
       WithinTolerance(this.container[i][j], other.container[i][j])

\* C26: A == B holds exactly when the shapes are identical and every pair of
\* corresponding elements differs by no more than the tolerance, and A != B
\* is exactly its negation.
C26_EqualWithinTolerance ==
  /\ (R # NoCall /\ R.op = "operator==") =>
       R.out.val = EqualsAsStated(R.this0, R.other0)
  /\ (R # NoCall /\ R.op = "operator!=") =>
       R.out.val = ~EqualsAsStated(R.this0, R.other0)

\* The same for matrices none of whose element differences is NaN
EqualWithinToleranceOfNumbers ==
  (R # NoCall
     /\ \A i \in 1..Len(R.this0.container) : \A j \in 1..Len(R.this0.container[i]) :
          SameShape(R.this0, R.other0) =>
            ~IsNaN(DSub(R.this0.container[i][j], R.other0.container[i][j])))
  => C26_EqualWithinTolerance

-----------------------------------------------------------------------------
(* Part 12.  A program copying a matrix and writing through operator().

   As the test "Copy Constructor and Assignment Operator" does, the program
   holds a matrix original, makes copies of it, matrices derived from it and
   grids returned by toVector, and writes elements through operator().  Here
   the storage is followed by address: A is original and B the sequence of
   the other objects made so far, each [kind, container, nrows, ncols] with
   container the address in heap of the std::vector it owns.               *)

\* Objects the program makes from original
MaxObjects == 3

\* Writes through operator() in one run
MaxWrites == 2

OwnOperands == {Grid(r, c, 1) : r \in 1..MaxDim, c \in 1..MaxDim}

\* The copy constructor of a std::vector member for a class that would hold
\* its storage by pointer: the copy refers to the storage at addr
CopyShared(h, addr) == addr

\* The copy constructor of std::vector, which the implicit copy constructor
\* of Matrix and the return of toVector run on container: the address of the
\* copy of the vector at addr, a new allocation
CopyOf(h, addr) == Len(h) + 1

\* The Matrix value of the object o
Deref(o) == Mat(heap[o.container], o.nrows, o.ncols)

\* The objects held, original first
Objects == <<A>> \o B

\* What the program can read from each object held, for the storage h
Contents(h) == [k \in 1..Len(Objects) |-> h[Objects[k].container]]

OwnInit ==
  /\ \E container \in OwnOperands :
       /\ heap = <<container>>
       /\ A = [kind |-> "original", container |-> 1,
               nrows |-> Len(container), ncols |-> Len(container[1])]
  /\ B = <<>> /\ R = NoCall /\ steps = 0 /\ caught = {}
  /\ call = NoCall /\ res = <<>> /\ th = <<>> /\ stdShuffle = <<>>

CanMake == Len(B) < MaxObjects

\* Matrix copy1 = original;
OwnCopy ==
  /\ CanMake
  /\ heap' = Append(heap, heap[A.container])
  /\ B' = Append(B, [kind |-> "copy", container |-> CopyOf(heap, A.container),
                     nrows |-> A.nrows, ncols |-> A.ncols])
  /\ R' = NoCall
  /\ UNCHANGED <<stdShuffle, A, steps, call, res, th, caught>>

\* auto grid = original.toVector();
OwnToVector ==
  /\ CanMake
  /\ heap' = Append(heap, toVector(Deref(A)))
  /\ B' = Append(B, [kind |-> "grid", container |-> CopyOf(heap, A.container),
                     nrows |-> A.nrows, ncols |-> A.ncols])
  /\ R' = NoCall
  /\ UNCHANGED <<stdShuffle, A, steps, call, res, th, caught>>

\* Matrix derived = original.transpose(); transposeContainer is a vector of
\* its own, moved into the result
OwnTranspose ==
  /\ CanMake
  /\ heap' = Append(heap, transpose(Deref(A)).mat.container)
  /\ B' = Append(B, [kind |-> "derived", container |-> Len(heap) + 1,
                     nrows |-> A.ncols, ncols |-> A.nrows])
  /\ R' = NoCall
  /\ UNCHANGED <<stdShuffle, A, steps, call, res, th, caught>>

\* Matrix derived = original + scalar; addRes is a copy of *this whose cells
\* the loop then writes
OwnAddScalar(scalar) ==
  /\ CanMake
  /\ LET addRes == CopyOf(heap, A.container)
     IN /\ heap' = [Append(heap, heap[A.container]) EXCEPT
                      ![addRes] = OpAddScalar(Deref(A), scalar).mat.container]
        /\ B' = Append(B, [kind |-> "derived", container |-> addRes,
                           nrows |-> A.nrows, ncols |-> A.ncols])
  /\ R' = NoCall
  /\ UNCHANGED <<stdShuffle, A, steps, call, res, th, caught>>

\* m(row, col) = val for the Matrix object m held at position k
OwnAssign(k, row, col, val) ==
  /\ steps < MaxWrites
  /\ k \in 1..Len(Objects)
  /\ Objects[k].kind # "grid"
  /\ R' = [op |-> "assign", args |-> <<k, row, col, val>>,
           this0 |-> Deref(Objects[k]), held0 |-> Contents(heap),
           objects0 |-> Objects,
           out |-> OpAt(Deref(Objects[k]), row, col)]
  /\ heap' = [heap EXCEPT ![Objects[k].container] =
                AssignAt(Deref(Objects[k]), row, col, val).container]
  /\ steps' = steps + 1
  /\ UNCHANGED <<stdShuffle, A, B, call, res, th, caught>>

OwnNext ==
  \/ OwnCopy
  \/ OwnToVector
  \/ OwnTranspose
  \/ OwnAddScalar(FromInt(2))
  \/ \E k \in 1..(MaxObjects + 1), row \in Indices, col \in Indices :
       OwnAssign(k, row, col, FromInt(9))

SpecOwn == OwnInit /\ [][OwnNext]_vars

\* C22: a write through operator() at an in-range (row, col) changes that
\* cell of that matrix and nothing else: its other cells and its shape, the
\* copies, the derived matrices and the grids made before stay as they were;
\* with row >= nrows or col >= ncols the call throws IndexOutOfRange and
\* nothing changes.
C22_WriteChangesOneCell ==
  (R # NoCall /\ R.op = "assign") =>
    LET k   == R.args[1]
        row == R.args[2]
        col == R.args[3]
        val == R.args[4]
    IN /\ Objects = R.objects0
       /\ IF row < R.this0.nrows /\ col < R.this0.ncols
          THEN /\ R.out.tag = "ref"
               /\ Contents(heap)[k] = [R.held0[k] EXCEPT ![row + 1][col + 1] = val]
               /\ \A j \in 1..Len(Objects) : j # k => Contents(heap)[j] = R.held0[j]
          ELSE /\ R.out = Throw("out_of_range", "IndexOutOfRange")
               /\ Contents(heap) = R.held0

\* original has been written while a copy, a derived matrix and a grid made
\* from it are held
C22_WroteOriginal ==
  /\ R # NoCall /\ R.op = "assign" /\ R.args[1] = 1
  /\ R.out.tag = "ref"
  /\ {B[j].kind : j \in 1..Len(B)} = {"copy", "derived", "grid"}
  /\ Contents(heap)[1] # R.held0[1]

-----------------------------------------------------------------------------
(* Part 13.  A program adding a matrix and subtracting it again.

   As the test "Matrix Addition and Subtraction" does, the program holds two
   matrices A and B, forms A + B, subtracts B from the sum and compares the
   difference with A.  The elements differ in magnitude, so that some sums
   round and some overflow.                                                 *)

AddSubEntries ==
  {FromInt(0), FromInt(1), FromInt(3), Scale(FromInt(1), 60),
   DDiv(FromInt(1), FromInt(10)), Huge}

AddSubOperands ==
  {Mat(<<<<a>>>>, 1, 1) : a \in AddSubEntries}
  \cup {Mat(<<<<a, b>>>>, 1, 2) : a, b \in AddSubEntries}
  \cup {Mat(<<<<FromInt(1)>>, <<FromInt(3)>>>>, 2, 1)}

AddSubInit ==
  /\ A \in AddSubOperands
  /\ B \in AddSubOperands
  /\ R = NoCall /\ steps = 0 /\ caught = {}
  /\ stdShuffle = <<>> /\ heap = <<>>
  /\ call = NoCall /\ res = <<>> /\ th = <<>>

\* Matrix back = (A + B) - B
SubtractBack ==
  /\ R # NoCall /\ R.op = "operator+"
  /\ R.out.tag = "matrix"
  /\ R' = [op |-> "operator-", args |-> <<>>, this0 |-> R.out.mat, other0 |-> B,
           a0 |-> R.this0, b0 |-> R.other0, out |-> OpSub(R.out.mat, B)]
  /\ steps' = steps + 1
  /\ UNCHANGED <<heap, stdShuffle, A, B, caught, call, res, th>>

\* back == A
CompareWithOriginal ==
  /\ R # NoCall /\ R.op = "operator-"
  /\ R.out.tag = "matrix"
  /\ R' = [op |-> "operator==", args |-> <<>>, this0 |-> R.out.mat, other0 |-> A,
           a0 |-> R.a0, b0 |-> R.b0, out |-> RetBool(OpEq(R.out.mat, A))]
  /\ steps' = steps + 1
  /\ UNCHANGED <<heap, stdShuffle, A, B, caught, call, res, th>>

AddSubNext ==
  \/ Add
  \/ SubtractBack
  \/ CompareWithOriginal

SpecAddSub == AddSubInit /\ [][AddSubNext]_vars

\* Whether operator+ computes this + other without rounding or overflow
SumExact(this, other) ==
  \A i \in 1..this.nrows : \A j \in 1..this.ncols :
    AddExact(this.container[i][j], other.container[i][j])

\* C28, as stated: for all A and B of identical shape, (A + B) - B == A, and
\* A and B are as they were before the two operations.
C28_AddThenSubtract ==
  (R # NoCall /\ R.op = "operator==") =>
    /\ R.out.val
    /\ A = R.a0
    /\ B = R.b0

\* C28, amended: for all A and B of identical shape whose element sums
\* operator+ computes without rounding or overflow, (A + B) - B == A, and A
\* and B are as they were before the two operations.
C28_ExactAddThenSubtract ==
  (R # NoCall /\ R.op = "operator==" /\ SumExact(R.a0, R.b0)) =>
    /\ R.out.val
    /\ A = R.a0
    /\ B = R.b0

\* The difference has been compared with A for two 1 x 2 matrices without a
\* zero element whose sums are exact
C28_ExactSumCompared ==
  /\ R # NoCall /\ R.op = "operator=="
  /\ R.a0.ncols = 2 /\ ~HasZero(R.a0.container) /\ ~HasZero(R.b0.container)
  /\ R.a0 # R.b0
  /\ SumExact(R.a0, R.b0)

-----------------------------------------------------------------------------
(* Part 14.  The earlier implementation, linAlg.cpp.

   Its class Matrix takes the determinant by cofactor expansion (_det, Part
   2) and the inverse from the cofactors.  As its test "3x3 Matrix Inversion
   and Identity Check" does, the program holds a matrix A, calls
   A.inverse(), multiplies A by the result and compares the product with
   the identity.  B holds the inverse once it has been returned.            *)

\* constexpr double EPS = 1e-9 of linAlg.cpp
EPS9 == DDiv(DOne, FromInt(1000000000))

\* linAlg.cpp, Matrix(const std::vector<std::vector<double>>&)
linAlgMatrix(container) ==
  IF Len(container) = 0 THEN Throw("invalid_argument", "InvalidShape")
  ELSE IF \E i \in 1..Len(container) : Len(container[i]) # Len(container[1])
  THEN Throw("invalid_argument", "InvalidShape")
  ELSE RetMatrix(Mat(container, Len(container), Len(container[1])))

\* linAlg.cpp, Matrix::determinant
linAlgDeterminant(this) ==
  IF this.nrows # this.ncols THEN Throw("invalid_argument", "NotSquare")
  ELSE RetDouble(_det(this.container))

\* linAlg.cpp, Matrix::transpose
linAlgTranspose(this) ==
  linAlgMatrix([j \in 1..this.ncols |-> [i \in 1..this.nrows |-> this.container[i][j]]])

\* The minor of inverse: the container without row i and column j
MinorAt(this, i, j) ==
  [mi \in 1..(this.nrows - 1) |->
     [mj \in 1..(this.ncols - 1) |->
        this.container[IF mi < i THEN mi ELSE mi + 1][IF mj < j THEN mj ELSE mj + 1]]]

\* cof of inverse
Cofactors(this) ==
  [i \in 1..this.nrows |-> [j \in 1..this.ncols |->
     DMul(IF (i + j) % 2 = 0 THEN DOne ELSE DNeg(DOne), _det(MinorAt(this, i, j)))]]

\* linAlg.cpp, Matrix::inverse.  inv.transpose() returns the transpose and
\* leaves inv as it is; the value returned is dropped.
linAlgInverse(this) ==
  LET Divided(inv, det) ==
        RetMatrix([inv EXCEPT !.container =
          [i \in 1..this.nrows |-> [j \in 1..this.ncols |->
             DDiv(inv.container[i][j], det)]]])
      From(d) ==
        IF d.tag = "throw" THEN d
        ELSE IF DLt(DAbs(d.val), EPS9) THEN Throw("runtime_error", "SingularMatrix")
        ELSE Divided(linAlgMatrix(Cofactors(this)).mat, d.val)
  IN From(linAlgDeterminant(this))

\* linAlg.cpp, Matrix::operator*(const Matrix&)
linAlgMul(this, other) ==
  IF this.ncols # other.nrows THEN Throw("invalid_argument", "DimensionMismatch")
  ELSE linAlgMatrix([i \in 1..this.nrows |-> [j \in 1..other.ncols |->
         CellSum(this, other, i, j)]])

\* linAlg.cpp, Matrix::operator==
linAlgEq(this, other) ==
  /\ SameShape(this, other)
  /\ \A i \in 1..this.nrows : \A j \in 1..this.ncols :
       ~DGt(DAbs(DSub(this.container[i][j], other.container[i][j])), EPS9)

\* The matrices inverted: all 2 x 2 and 1 x 1 matrices of small entries, the
\* matrices of the two tests, one that is not square
LegacyOperands ==
  {Mat(<<<<a, b>>, <<c, d>>>>, 2, 2) : a, b, c, d \in SmallEntries}
  \cup {Mat(<<<<a>>>>, 1, 1) : a \in SmallEntries}
  \cup {Mat(<<<<FromInt(4), FromInt(7)>>, <<FromInt(2), FromInt(6)>>>>, 2, 2),
        Mat(<<<<FromInt(4), FromInt(7), FromInt(2)>>,
              <<FromInt(3), FromInt(6), FromInt(1)>>,
              <<FromInt(2), FromInt(5), FromInt(1)>>>>, 3, 3),
        Mat(<<<<DOne, FromInt(2)>>>>, 1, 2)}

LegacyInit ==
  /\ A \in LegacyOperands
  /\ B = NoMatrix /\ R = NoCall /\ steps = 0 /\ caught = {}
  /\ stdShuffle = <<>> /\ heap = <<>>
  /\ call = NoCall /\ res = <<>> /\ th = <<>>

\* Matrix inv = m.inverse()
LegacyInverse ==
  /\ CanCall
  /\ R' = CallRec("inverse", <<>>, NoMatrix, linAlgInverse(A))
  /\ steps' = steps + 1
  /\ UNCHANGED <<heap, stdShuffle, A, B, call, res, th, caught>>

\* Matrix prod = m * inv
LegacyMultiply ==
  /\ R # NoCall /\ R.op = "inverse"
  /\ R.out.tag = "matrix"
  /\ B' = R.out.mat
  /\ R' = CallRec("operator*", <<>>, R.out.mat, linAlgMul(A, R.out.mat))
  /\ steps' = steps + 1
  /\ UNCHANGED <<heap, stdShuffle, A, caught, call, res, th>>

\* prod == id
LegacyCompare ==
  /\ R # NoCall /\ R.op = "operator*"
  /\ R.out.tag = "matrix"
  /\ R' = [op |-> "operator==", args |-> <<>>, this0 |-> R.out.mat,
           other0 |-> identity(A.nrows).mat,
           out |-> RetBool(linAlgEq(R.out.mat, identity(A.nrows).mat))]
  /\ steps' = steps + 1
  /\ UNCHANGED <<heap, stdShuffle, A, B, caught, call, res, th>>

LegacyNext ==
  \/ LegacyInverse
  \/ LegacyMultiply
  \/ LegacyCompare

SpecLegacy == LegacyInit /\ [][LegacyNext]_vars

\* C29: for a square matrix whose determinant is not zero, inverse() of
\* linAlg.cpp returns the transposed cofactor matrix divided by the
\* determinant, and the product of the matrix with it equals the identity.
C29_LegacyInverse ==
  (R # NoCall /\ A.nrows = A.ncols /\ ~IsZero(_det(A.container))) =>
    /\ R.op = "inverse" =>
         /\ R.out.tag = "matrix"
         /\ \A i \in 1..A.nrows : \A j \in 1..A.ncols :
              R.out.mat.container[i][j]
                = DDiv(Cofactors(A)[j][i], _det(A.container))
    /\ R.op = "operator==" => R.out.val

\* What the code keeps of C29: the same for the matrices of two or more rows
\* that equal their transpose.
LegacyInverseOfSymmetric ==
  (R # NoCall /\ (A.nrows < 2 \/ linAlgTranspose(A).mat # A)) \/ C29_LegacyInverse

-----------------------------------------------------------------------------
(* Part 15.  A program asking both determinant and inverse of a matrix.    *)

\* 2^10: the factor of the matrix of two equal rows
Scaled == 10

\* The matrices asked: those of Part 6 and [[11, 15], [11, 15]] times 2^10
SingularOperands ==
  InvOperands
  \cup {Mat(<<<<Scale(FromInt(11), Scaled), Scale(FromInt(15), Scaled)>>,
               <<Scale(FromInt(11), Scaled), Scale(FromInt(15), Scaled)>>>>, 2, 2)}

SingularInit ==
  /\ A \in SingularOperands
  /\ B = NoMatrix /\ R = NoCall /\ steps = 0 /\ caught = {}
  /\ stdShuffle = <<>> /\ heap = <<>>
  /\ call = NoCall /\ res = <<>> /\ th = <<>>

SingularNext ==
  \/ Determinant
  \/ Inverse
  \/ Drop

SpecSingular == SingularInit /\ [][SingularNext]_vars

\* C30: for every square matrix, determinant() leaves its loop through the
\* test of the pivot against EPS exactly when inverse() throws
\* SingularMatrix.
C30_SameSingularJudgement ==
  (R # NoCall /\ R.op \in {"determinant", "inverse"}
     /\ R.this0.nrows = R.this0.ncols) =>
    /\ R.op = "inverse" =>
         (R.out = Throw("runtime_error", "SingularMatrix")
            <=> DeterminantLoop(R.this0).zero)
    /\ R.op = "determinant" =>
         (DeterminantLoop(R.this0).zero
            <=> inverse(R.this0) = Throw("runtime_error", "SingularMatrix"))

\* What the code keeps of C30: the same for the matrices of small entries.
SameSingularJudgementSmall ==
  (R # NoCall
     /\ \E i \in 1..R.this0.nrows : \E j \in 1..R.this0.ncols :
          R.this0.container[i][j] \notin SmallEntries)
  \/ C30_SameSingularJudgement

=============================================================================
